---- MODULE Spec2Model ----
(***************************************************************************)
(* A model of the rust-os kernel core: the page allocator, the process     *)
(* table and cooperative scheduler, the synchronisation primitives, the    *)
(* reference-counted box, the Sv32 user-memory guard and the syscall       *)
(* dispatcher with its resource-descriptor table.                          *)
(*                                                                         *)
(* Each subsystem has its own specification (SpecSched, SpecPage, ...)     *)
(* over the shared variables; a subsystem's specification leaves the       *)
(* variables of the other subsystems at their boot values.                 *)
(***************************************************************************)
EXTENDS Integers, Naturals, Sequences, FiniteSets, TLC

(***************************************************************************)
(* Program constants                                                       *)
(***************************************************************************)
\* usize and the registers are 32 bits wide (riscv32).  TLC integers are 32-bit
\* signed, so the model writes
\*   - the address of a page frame or page as its page number (address / 4096;
\*     every such address is a multiple of PAGE_SIZE), with arithmetic modulo
\*     AddressSpacePages = 2^32 / 4096;
\*   - a byte address as <<page number, offset in page>>;
\*   - a register as its two's-complement value (0xFFFF_FFFF is -1).
PAGE_SIZE == 4096
\* entries of one page table; two levels of tables span the address space
PAGE_TABLE_LENGTH == 1024
AddressSpacePages == PAGE_TABLE_LENGTH * PAGE_TABLE_LENGTH
MAX_PROCS == 8
KERNEL_STACK_SIZE == 4096
\* USER_BASE = 0x0100_0000 and the first mmap_head = 0x0200_0000, as page numbers
USER_BASE_PAGE == 4096
MMAP_BASE_PAGE == 8192
MAX_NUM_RESOURCE_DESCRIPTORS == 1024
\* size_of::<Option<ResourceDescriptor>>(): a NonNull pointer with the null niche
RD_ENTRY_SIZE == 4

\* Linker symbols.  The linker script fixes their values; the model places
\* the kernel at the usual load address and gives it FreeRamPages of free RAM
\* (__kernel_base = 0x8020_0000), all as page numbers.  __free_ram_end is the
\* variable FreeRamEnd, fixed by each specification's initial state.
KernelBase == 524800
KernelPages == 2
FreeRamPages == 30
FreeRam == KernelBase + KernelPages

\* 0x1000_1000 and 0x1000_2000, as page numbers
BLOCK_DEVICE_ADDRESS == 65537
RNG_DEVICE_ADDRESS == 65538

(***************************************************************************)
(* Bounds of the model                                                     *)
(***************************************************************************)
\* harts / threads racing on one primitive
NumThreads == 3
\* alloc_pages / free_pages calls explored by the page-allocator specification
MaxAllocCalls == 3
\* pages of the flat user image handed to create_process
UserImagePages == 1
\* pages of free RAM of the machine that fills the whole process table
ProcTableRamPages == 41
\* KrcBox handles to one allocation that exist at a time
MaxHandles == 3
\* update calls on one Atomic
MaxUpdates == 3
\* read_sector / write_sector calls on one block device
MaxRequests == 3
\* calls of read_random
MaxRngCalls == 2
\* requests for which the entropy device hands out a single byte though it has more
MaxShortFills == 1
\* a buffer the entropy device cannot fill byte by byte within MAX_NUM_ITERS requests
RngBigLen == 130
\* sectors of the block device (its Capacity register)
DiskSectors == 2
\* get / set calls on one OnceLock
MaxOnceOps == 4
\* resource descriptions created by Open
MaxOpens == 2
\* Mmap calls that returned a base before a further call
MaxMmaps == 3
\* blocks of the kernel allocator that are live at a time
MaxBlocks == 2
\* blocks of the size classes in use at a time, enough for a class to need a second page
MaxClassBlocks == 3
\* user processes kernel_main creates ahead of the idle process
MaxUsers == 2
\* register files a process may hold when it yields
MaxRegFiles == 2
\* stack depths (in 16-byte frames) at which a process may yield
MaxFrames == 1

Threads == 1 .. NumThreads
Slots == 0 .. (MAX_PROCS - 1)

(***************************************************************************)
(* Arithmetic helpers                                                      *)
(***************************************************************************)
Min(S) == CHOOSE x \in S : \A y \in S : x <= y
DivCeil(a, b) == (a + b - 1) \div b
\* wrapping usize arithmetic on page numbers
WrapPage(x) == x % AddressSpacePages

VARIABLES
    debug_assertions,   \* build profile: debug assertions and overflow checks on?
    FreeRamEnd,         \* __free_ram_end: the page after the last page of free RAM
    panicked,           \* "none", or the message of the kernel panic that halted the hart
    procState,          \* PROCS_BUF[i].state
    procPid,            \* PROCS_BUF[i].pid
    procMmapHead,       \* PROCS_BUF[i].mmap_head
    procRd,             \* PROCS_BUF[i].resource_descriptors: open slot -> description id
    procRdPtr,          \* address of PROCS_BUF[i].resource_descriptors
    procPt,             \* the page table PROCS_BUF[i].page_table points at
    CURRENT_PROC_SLOT,
    PID_COUNTER,
    booted,             \* kernel_main has made its first switch_context
    frame,              \* trap frame of the last syscall, as handle_syscall left it
    descs,              \* every ResourceDescription created so far, by id
    classes,            \* KAllocator::classes: one FixedSizeAllocator per size class
    closed,             \* history: descriptor numbers closed by Close and not yet reallocated
    lastRead,           \* history: a1 (the descriptor number) of the last Read trap
    mmaps,              \* history: <<base page, pages>> of each Mmap that returned a base
    filled,             \* history: descriptions created by the Opens of FillTable
    regs,               \* the hart's callee-saved registers <<ra, s0, ..., s11>>
    sp,                 \* the hart's stack pointer, <<page, offset>>
    sscratch,           \* the sscratch CSR: top of the running process's kernel stack
    procSp,             \* PROCS_BUF[i].sp, <<page, offset>>
    procKernelStack,    \* PROCS_BUF[i].kernel_stack, as a page number
    kmem,               \* kernel memory: the words written so far, by <<page, offset>>
    switchedAway,       \* history: registers and sp of each process when last switched away
    heap,               \* history: blocks the kernel allocator handed out and has not got back
                        \* (reused: the block had been given back before)
    freedOrder,         \* history: per size class, the blocks given back and not handed out again, latest first
    NEXT_PTR,           \* bump cursor of the page allocator
    FREED_PAGES,        \* freed-page list, head first: <<[addr, num_pages], ...>>
    live,               \* allocations handed out by alloc_pages and not freed
    allocPc,            \* per hart: position inside alloc_pages
    allocHead,          \* per hart: `head` loaded from NEXT_PTR
    allocN,             \* per hart: num_pages argument
    allocCalls,         \* number of allocator calls made so far
    guardPt,            \* the active Sv32 page table of the user-memory guard
    guardRegion,        \* the region <<start address, length>> handed to for_region
    guardMut,           \* TRUE: UserMemMut::for_region, FALSE: UserMemRef::for_region
    guardResult,        \* "pending", "Some", "None" or "panic"
    refcount,           \* KrcBoxInner::refcount
    rcOwned,            \* per thread: KrcBox handles it holds
    rcPc,               \* per thread: position inside clone / drop
    rcOld,              \* per thread: old_count of the compare-exchange loop
    rcDestroyed,        \* times drop_in_place ran on the payload
    rcFreed,            \* times the allocation was handed back to the allocator
    onceFlags,          \* OnceLock::flags
    onceValue,          \* OnceLock::value: "uninit" or the value written
    oncePc,             \* per thread: position inside set
    onceArg,            \* per thread: the argument of the set in progress
    onceGot,            \* per thread: what the last get returned
    onceSet,            \* per thread: what the last set returned
    onceOps,            \* get / set calls made so far
    onceHist,           \* history: how the lock was built, the sets that returned Ok and Err,
                        \* and the thread whose set returned last
    flag,               \* KSpinLock::flag
    guards,             \* per thread: KSpinLockGuards it holds
    spinPc,             \* per thread: position inside lock()
    spinTry,            \* per thread: outcome of its last try_lock
    started,            \* LazyLock::started
    finished,           \* LazyLock::finished
    lazyValue,          \* LazyLock::value: "uninit" or "init"
    lazyRuns,           \* times the init closure ran
    lazyPc,             \* per thread: position inside force
    lazySaw,            \* per thread: <<started, finished>> as found by its swap
    atomValue,          \* the value inside one Atomic<u8>
    atomPc,             \* per thread: position inside update
    atomCall,           \* per thread: the update in progress: its closure and its orderings
    atomFetched,        \* per thread: `fetched` of update_weak
    atomRet,            \* per thread: what its last update returned
    atomHist,           \* history: updates started, and completed per closure
    ext2Call,           \* the last call made on the ext2 image
    ext2Out,            \* what that call returned (and left in the caller's buffer)
    vioDev,             \* the virtio device behind the registers: its kind and feature bits
    vioPc,              \* the driver's position: a step of initialisation, idle, waiting
    vioLog,             \* every register write the driver made, in order
    vioStatus,          \* the device's DeviceStatus register
    vioQueue,           \* the VirtQueue shared by driver and device
    vioDisk,            \* the block device's sectors
    vioReq,             \* the BlockRequest the descriptors point at
    vioArg,             \* the read_sector / write_sector call in progress
    vioOut,             \* what the last call returned: result, buffer, used element
    vioHist             \* history: requests made, the used element the device wrote, data written

schedVars == <<procState, procPid, procMmapHead, procRd, procRdPtr, procPt, CURRENT_PROC_SLOT,
               PID_COUNTER, booted>>
pageVars == <<NEXT_PTR, FREED_PAGES, live, allocPc, allocHead, allocN, allocCalls>>
guardVars == <<guardPt, guardRegion, guardMut, guardResult>>
sysVars == <<frame, descs, classes, closed, lastRead, mmaps, filled>>
rcVars == <<refcount, rcOwned, rcPc, rcOld, rcDestroyed, rcFreed>>
onceVars == <<onceFlags, onceValue, oncePc, onceArg, onceGot, onceSet, onceOps, onceHist>>
spinVars == <<flag, guards, spinPc, spinTry>>
lazyVars == <<started, finished, lazyValue, lazyRuns, lazyPc, lazySaw>>
atomVars == <<atomValue, atomPc, atomCall, atomFetched, atomRet, atomHist>>
\* the primitives and devices outside the kernel's process table and allocators
ext2Vars == <<ext2Call, ext2Out>>
vioVars == <<vioDev, vioPc, vioLog, vioStatus, vioQueue, vioDisk, vioReq, vioArg, vioOut, vioHist>>
moreVars == <<atomVars, ext2Vars, vioVars>>
ctxRegs == <<regs, sp, sscratch, procSp, procKernelStack, switchedAway>>
ctxVars == <<ctxRegs, kmem>>
heapVars == <<heap, freedOrder>>
\* everything the kernel proper (process table, page allocator, syscalls) leaves alone
nonKernelMem == <<guardVars, rcVars, onceVars, spinVars, lazyVars, moreVars, ctxRegs, heapVars>>
nonKernel == <<nonKernelMem, kmem>>
\* everything the page allocator and the scheduler leave alone
nonSched == <<sysVars, nonKernel>>
\* everything the user-memory guard leaves alone
nonGuard == <<schedVars, pageVars, sysVars, rcVars, onceVars, spinVars, lazyVars, moreVars, ctxVars, heapVars>>
\* everything each primitive leaves alone
nonRc == <<debug_assertions, FreeRamEnd, panicked, schedVars, pageVars, sysVars, guardVars, onceVars, spinVars, lazyVars, moreVars, ctxVars, heapVars>>
nonOnce == <<debug_assertions, FreeRamEnd, panicked, schedVars, pageVars, sysVars, guardVars, rcVars, spinVars, lazyVars, moreVars, ctxVars, heapVars>>
nonSpin == <<debug_assertions, FreeRamEnd, panicked, schedVars, pageVars, sysVars, guardVars, rcVars, onceVars, lazyVars, moreVars, ctxVars, heapVars>>
primVars == <<rcVars, onceVars, spinVars, lazyVars>>
nonAtom == <<debug_assertions, FreeRamEnd, panicked, schedVars, pageVars, sysVars, guardVars, primVars, ext2Vars, vioVars, ctxVars, heapVars>>
nonExt2 == <<debug_assertions, FreeRamEnd, panicked, schedVars, pageVars, sysVars, guardVars, primVars, atomVars, vioVars, ctxVars, heapVars>>
nonVio == <<debug_assertions, FreeRamEnd, panicked, schedVars, pageVars, sysVars, guardVars, primVars, atomVars, ext2Vars, ctxVars, heapVars>>
nonLazy == <<debug_assertions, FreeRamEnd, panicked, schedVars, pageVars, sysVars, guardVars, rcVars, onceVars, spinVars, moreVars, ctxVars, heapVars>>
vars == <<debug_assertions, FreeRamEnd, panicked, schedVars, pageVars, sysVars, guardVars, rcVars, onceVars,
          spinVars, lazyVars, moreVars, ctxVars, heapVars>>

(***************************************************************************)
(* 4.A Page allocator (src/src/alloc/page.rs)                              *)
(***************************************************************************)
\* FreePageList::try_pop: walks the list; a node of the requested size hits
\* todo!(), otherwise the walk ends with None.
try_pop(freed, num_pages) ==
    IF \E i \in 1 .. Len(freed) : freed[i].num_pages = num_pages
    THEN "todo"
    ELSE "None"

\* The outcomes of try_pop as alloc_pages sees them: head.try_lock() is a weak
\* compare-exchange, so it may fail and try_pop then returns None at once.
try_pop_outcomes(freed, num_pages) == {try_pop(freed, num_pages), "None"}

\* PAGE_SIZE.checked_mul(num_pages): None (-1) when the byte count overflows a
\* usize, else the byte count, written in pages
checked_mul(num_pages) == IF num_pages >= AddressSpacePages THEN -1 ELSE num_pages

\* head.wrapping_byte_add(bytes), in pages
new_next(head, pages) == WrapPage(head + pages)

\* One pass of alloc_pages on a single hart (the compare-exchange succeeds):
\* the outcome and the new cursor.
alloc_pages(ptr, freed, num_pages) ==
    IF try_pop(freed, num_pages) = "todo"
    THEN [res |-> "panic", ptr |-> -1, next |-> ptr]
    ELSE IF checked_mul(num_pages) = -1
    THEN [res |-> "panic", ptr |-> -1, next |-> ptr]
    ELSE IF new_next(ptr, checked_mul(num_pages)) > FreeRamEnd
    THEN [res |-> "OutOfMemory", ptr |-> -1, next |-> ptr]
    ELSE [res |-> "Ok", ptr |-> ptr, next |-> new_next(ptr, checked_mul(num_pages))]

\* The largest num_pages whose byte size still fits a usize, and the first that does not.
BigPages == AddressSpacePages - 1
TooBigPages == AddressSpacePages
AllocSizes == {0, 1, 2, BigPages, TooBigPages}

PageInit ==
    /\ NEXT_PTR \in {FreeRam, FreeRamEnd - 2}
    /\ FREED_PAGES = <<>>
    /\ live = {}
    /\ allocPc = [t \in Threads |-> "idle"]
    /\ allocHead = [t \in Threads |-> 0]
    /\ allocN = [t \in Threads |-> 0]
    /\ allocCalls = 0

PageQuiet ==
    /\ NEXT_PTR = FreeRam
    /\ FREED_PAGES = <<>>
    /\ live = {}
    /\ allocPc = [t \in Threads |-> "idle"]
    /\ allocHead = [t \in Threads |-> 0]
    /\ allocN = [t \in Threads |-> 0]
    /\ allocCalls = 0

\* alloc_pages, entry: the freed list is searched first (page.rs:38-40).
AllocBegin(t, n) ==
    /\ panicked = "none"
    /\ allocPc[t] = "idle"
    /\ allocCalls < MaxAllocCalls
    /\ allocCalls' = allocCalls + 1
    /\ allocN' = [allocN EXCEPT ![t] = n]
    /\ \E popped \in try_pop_outcomes(FREED_PAGES, n) :
         IF popped = "todo"
         THEN /\ panicked' = "not yet implemented: Return these pages"
              /\ UNCHANGED allocPc
         ELSE /\ allocPc' = [allocPc EXCEPT ![t] = "load"]
              /\ UNCHANGED panicked
    /\ UNCHANGED <<debug_assertions, FreeRamEnd, schedVars, NEXT_PTR, FREED_PAGES, live, allocHead, nonSched>>

\* alloc_pages, loop head: load the cursor, compute the new one, bounds check (page.rs:42-48).
AllocLoad(t) ==
    /\ panicked = "none"
    /\ allocPc[t] = "load"
    /\ IF checked_mul(allocN[t]) = -1
       THEN /\ panicked' = "alloc too big"
            /\ UNCHANGED <<allocPc, allocHead>>
       ELSE /\ UNCHANGED panicked
            /\ allocHead' = [allocHead EXCEPT ![t] = NEXT_PTR]
            /\ IF new_next(NEXT_PTR, checked_mul(allocN[t])) > FreeRamEnd
               THEN allocPc' = [allocPc EXCEPT ![t] = "idle"]
               ELSE allocPc' = [allocPc EXCEPT ![t] = "cas"]
    /\ UNCHANGED <<debug_assertions, FreeRamEnd, schedVars, NEXT_PTR, FREED_PAGES, live, allocN, allocCalls, nonSched>>

\* alloc_pages, compare_exchange_weak succeeded: the allocation is handed out (page.rs:49-54).
AllocCasOk(t) ==
    /\ panicked = "none"
    /\ allocPc[t] = "cas"
    /\ NEXT_PTR = allocHead[t]
    /\ NEXT_PTR' = new_next(allocHead[t], checked_mul(allocN[t]))
    /\ live' = live \cup {[ptr |-> allocHead[t], num_pages |-> allocN[t], id |-> allocCalls]}
    /\ allocPc' = [allocPc EXCEPT ![t] = "idle"]
    /\ UNCHANGED <<debug_assertions, FreeRamEnd, panicked, schedVars, FREED_PAGES, allocHead, allocN, allocCalls, nonSched>>

\* alloc_pages, compare_exchange_weak failed (another hart moved the cursor, or
\* the weak exchange failed spuriously): go round the loop again.
AllocCasFail(t) ==
    /\ panicked = "none"
    /\ allocPc[t] = "cas"
    /\ allocPc' = [allocPc EXCEPT ![t] = "load"]
    /\ UNCHANGED <<debug_assertions, FreeRamEnd, panicked, schedVars, NEXT_PTR, FREED_PAGES, live, allocHead, allocN, allocCalls, nonSched>>

\* FreePageList::insert: push a node in front of the list (page.rs:75-86).
insert(freed, page_addr, num_pages) ==
    <<[addr |-> page_addr, num_pages |-> num_pages]>> \o freed

\* free_pages on a live allocation (page.rs:59-63).
FreePages(t, a) ==
    /\ panicked = "none"
    /\ allocPc[t] = "idle"
    /\ allocCalls < MaxAllocCalls
    /\ a \in live
    /\ allocCalls' = allocCalls + 1
    /\ live' = live \ {a}
    /\ IF a.ptr = 0
       THEN /\ panicked' = "Given null page"
            /\ UNCHANGED FREED_PAGES
       ELSE /\ FREED_PAGES' = insert(FREED_PAGES, a.ptr, a.num_pages)
            /\ UNCHANGED panicked
    /\ UNCHANGED <<debug_assertions, FreeRamEnd, schedVars, NEXT_PTR, allocPc, allocHead, allocN, nonSched>>

PageNext ==
    \/ \E t \in Threads, n \in AllocSizes : AllocBegin(t, n)
    \/ \E t \in Threads : AllocLoad(t)
    \/ \E t \in Threads : AllocCasOk(t)
    \/ \E t \in Threads : AllocCasFail(t)
    \/ \E t \in Threads, a \in live : FreePages(t, a)

(***************************************************************************)
(* 4.E Sv32 page table and the user-memory guard (src/src/page_table.rs)   *)
(***************************************************************************)
\* A page table is modelled by its valid first-level entries (vpn1 -> page
\* number of the second-level table) and its leaf entries (virtual page
\* number -> physical page number and flags); an absent leaf is
\* PageTableEntry::EMPTY.
Vpn1(vpn) == (vpn \div PAGE_TABLE_LENGTH) % PAGE_TABLE_LENGTH

EmptyTable == [l1 |-> [v \in {} |-> 0], leaf |-> [v \in {} |-> 0]]
EmptyEntry == [kind |-> "Some", paddr |-> 0, flags |-> {}]

RWXU == {"Readable", "Writable", "Executable", "UserAccessible"}

\* bitset contains / contains_any (bitset/src/lib.rs:49-56); contains_any
\* tests the union of the two sets, as the macro does.
contains(self, other) == other \subseteq self
contains_any(self, other) == (self \cup other) # {}

LeafOf(pt, vpn) == IF vpn \in DOMAIN pt.leaf THEN pt.leaf[vpn] ELSE EmptyEntry

\* entry_for_vaddr with paging on: kind "None", "todo" (large page) or "Some"
\* with the leaf entry.  A first-level entry written by map_page carries Valid only.
entry_for_vaddr(pt, vpn) ==
    IF Vpn1(vpn) \notin DOMAIN pt.l1
    THEN [kind |-> "None", paddr |-> 0, flags |-> {}]
    ELSE IF ~contains_any({"Valid"}, RWXU)
    THEN [kind |-> "todo", paddr |-> 0, flags |-> {}]
    ELSE LeafOf(pt, vpn)

\* A region is <<page, offset, length>>: start address page * 4096 + offset.
\* start + length as <<page, offset>>, before wrapping
RegionEnd(region) ==
    <<region[1] + (region[2] + region[3]) \div PAGE_SIZE, (region[2] + region[3]) % PAGE_SIZE>>

\* The pages check_range_has_flags visits:
\* (start_vaddr..end_vaddr).step_by(PAGE_SIZE) with start_vaddr = addr & !0xfff
\* and end_vaddr the wrapped sum addr + len.
RangePages(region) ==
    LET endPage == WrapPage(RegionEnd(region)[1])
        endOff == RegionEnd(region)[2]
    IN region[1] .. (IF endOff > 0 THEN endPage ELSE endPage - 1)

\* check_range_has_flags: "true", "false", or "panic" when addr + len
\* overflows a usize in a build with overflow checks.
check_range_has_flags(pt, dbg, region, flags) ==
    LET PageOk(vpn) == LET e == entry_for_vaddr(pt, vpn) IN
                       /\ e.kind = "Some"
                       /\ contains(e.flags, flags)
    IN IF RegionEnd(region)[1] >= AddressSpacePages /\ dbg
       THEN "panic"
       ELSE IF \A vpn \in RangePages(region) : PageOk(vpn)
       THEN "true"
       ELSE "false"

UserRefFlags == {"Valid", "UserAccessible", "Readable"}
UserMutFlags == {"Valid", "UserAccessible", "Readable", "Writable"}

\* UserMemRef::for_region / UserMemMut::for_region: "Some", "None" or "panic".
for_region(pt, dbg, region, mut) ==
    LET r == check_range_has_flags(pt, dbg, region, IF mut THEN UserMutFlags ELSE UserRefFlags)
    IN IF r = "panic" THEN "panic" ELSE IF r = "true" THEN "Some" ELSE "None"

\* A map_page without the assertion on the leaf: a Valid leaf is overwritten.
map_page_overwriting(pt, ptr, freed, vpn, ppn, flags) ==
    LET need == Vpn1(vpn) \notin DOMAIN pt.l1
        a == alloc_pages(ptr, freed, 1)
    IN IF need /\ a.res # "Ok"
       THEN [res |-> a.res, pt |-> pt, next |-> a.next]
       ELSE [res |-> "Ok",
             pt |-> [l1 |-> IF need THEN [v \in DOMAIN pt.l1 \cup {Vpn1(vpn)} |->
                                            IF v = Vpn1(vpn) THEN a.ptr ELSE pt.l1[v]]
                            ELSE pt.l1,
                     leaf |-> [v \in DOMAIN pt.leaf \cup {vpn} |->
                                 IF v = vpn
                                 THEN [kind |-> "Some", paddr |-> ppn,
                                       flags |-> flags \cup {"Valid"}]
                                 ELSE pt.leaf[v]]],
             next |-> IF need THEN a.next ELSE ptr]

\* map_page for page-aligned vaddr and paddr (given as page numbers); the
\* second-level table comes from alloc_pages.  The new table, the new cursor
\* and the outcome.
map_page(pt, ptr, freed, vpn, ppn, flags) ==
    LET need == Vpn1(vpn) \notin DOMAIN pt.l1
        a == alloc_pages(ptr, freed, 1)
    IN IF need /\ a.res # "Ok"
       THEN [res |-> a.res, pt |-> pt, next |-> a.next]
       ELSE LET l1 == IF need THEN [v \in DOMAIN pt.l1 \cup {Vpn1(vpn)} |->
                                      IF v = Vpn1(vpn) THEN a.ptr ELSE pt.l1[v]]
                              ELSE pt.l1
                nxt == IF need THEN a.next ELSE ptr
            IN IF "Valid" \in LeafOf(pt, vpn).flags
               THEN [res |-> "panic", pt |-> [pt EXCEPT !.l1 = l1], next |-> nxt]
               ELSE [res |-> "Ok",
                     pt |-> [l1 |-> l1,
                             leaf |-> [v \in DOMAIN pt.leaf \cup {vpn} |->
                                         IF v = vpn
                                         THEN [kind |-> "Some", paddr |-> ppn,
                                               flags |-> flags \cup {"Valid"}]
                                         ELSE pt.leaf[v]]],
                     next |-> nxt]

\* Regions and pages the guard is exercised on.
LastPage == AddressSpacePages - 1
GuardRegions ==
    { <<USER_BASE_PAGE, 0, 16>>, <<USER_BASE_PAGE, 0, 0>>, <<USER_BASE_PAGE, 16, 0>>,
      <<USER_BASE_PAGE, PAGE_SIZE - 6, 16>>, <<USER_BASE_PAGE, 0, 2 * PAGE_SIZE>>,
      <<USER_BASE_PAGE + 1, 0, 1>>,
      <<LastPage, 0, 2 * PAGE_SIZE>>, <<LastPage, 16, PAGE_SIZE - 16>>, <<LastPage, 0, 16>> }
GuardPages == {USER_BASE_PAGE, USER_BASE_PAGE + 1, LastPage}
\* physical page frames the pages are mapped to
GuardFrames == {KernelBase, FreeRamEnd}
GuardFlags == { {"Readable", "UserAccessible"}, {"Readable", "Writable", "UserAccessible"},
                {"Readable", "Writable"} }

GuardInit ==
    /\ guardPt = EmptyTable
    /\ guardRegion \in GuardRegions
    /\ guardMut \in BOOLEAN
    /\ guardResult = "pending"

GuardQuiet ==
    /\ guardPt = EmptyTable
    /\ guardRegion = <<0, 0, 0>>
    /\ guardMut = FALSE
    /\ guardResult = "pending"

\* map_page(table, v, p, f): map one more page into the active table.
GuardMapPage(v, p, f) ==
    /\ panicked = "none"
    /\ guardResult = "pending"
    /\ LET m == map_page(guardPt, NEXT_PTR, FREED_PAGES, v, p, f) IN
       /\ guardPt' = m.pt
       /\ NEXT_PTR' = m.next
       /\ panicked' = IF m.res = "panic" THEN "map_page assertion failed" ELSE panicked
    /\ UNCHANGED <<debug_assertions, FreeRamEnd, schedVars, FREED_PAGES, live, allocPc, allocHead, allocN,
                   allocCalls, guardRegion, guardMut, guardResult, sysVars, rcVars, onceVars, spinVars,
                   lazyVars, moreVars, ctxVars, heapVars>>

\* UserMemRef::for_region / UserMemMut::for_region on the chosen region.
GuardCheck ==
    /\ panicked = "none"
    /\ guardResult = "pending"
    /\ guardResult' = for_region(guardPt, debug_assertions, guardRegion, guardMut)
    /\ panicked' = IF guardResult' = "panic" THEN "attempt to add with overflow" ELSE panicked
    /\ UNCHANGED <<debug_assertions, FreeRamEnd, nonGuard, guardPt, guardRegion, guardMut>>

GuardNext ==
    \/ \E v \in GuardPages, p \in GuardFrames, f \in GuardFlags : GuardMapPage(v, p, f)
    \/ GuardCheck

(***************************************************************************)
(* 4.F Process table and cooperative scheduler (src/src/proc.rs)           *)
(***************************************************************************)
EmptyRd == [d \in {} |-> 0]

KERNEL_MEM_FLAGS == {"Readable", "Writable", "Executable"}
DEVICE_MEM_FLAGS == {"Readable", "Writable"}
USER_PAGE_FLAGS == {"Valid", "Readable", "Writable", "Executable", "UserAccessible"}

\* A run of map_page calls with `?` after each: todo is a sequence of
\* <<virtual page, physical page, flags>>.
RECURSIVE map_pages(_, _, _, _)
map_pages(pt, ptr, freed, todo) ==
    IF todo = <<>> THEN [res |-> "Ok", pt |-> pt, next |-> ptr]
    ELSE LET m == map_page(pt, ptr, freed, Head(todo)[1], Head(todo)[2], Head(todo)[3]) IN
         IF m.res # "Ok" THEN m
         ELSE map_pages(m.pt, m.next, freed, Tail(todo))

\* map_kernel_memory: identity-map [__kernel_base, __free_ram_end), then the
\* two virtio devices.
map_kernel_memory(pt, ptr, freed) ==
    map_pages(pt, ptr, freed,
              [i \in 1 .. (FreeRamEnd - KernelBase) |->
                  <<KernelBase + i - 1, KernelBase + i - 1, KERNEL_MEM_FLAGS>>]
              \o << <<BLOCK_DEVICE_ADDRESS, BLOCK_DEVICE_ADDRESS, DEVICE_MEM_FLAGS>>,
                    <<RNG_DEVICE_ADDRESS, RNG_DEVICE_ADDRESS, DEVICE_MEM_FLAGS>> >>)

\* alloc_and_map_slice: fresh pages for the data, mapped from start_vpn on.
alloc_and_map_slice(pt, ptr, freed, start_vpn, dataPages, flags) ==
    LET a == alloc_pages(ptr, freed, dataPages) IN
    IF a.res # "Ok" THEN [res |-> a.res, pt |-> pt, next |-> a.next]
    ELSE map_pages(pt, a.next, freed,
                   [i \in 1 .. dataPages |-> <<start_vpn + i - 1, a.ptr + i - 1, flags>>])

RdPages == DivCeil(MAX_NUM_RESOURCE_DESCRIPTORS * RD_ENTRY_SIZE, PAGE_SIZE)

\* ProcessInner::create_process: kernel stack, root page table, kernel
\* mappings, the image, the resource-descriptor array; `?` after each step.
create_process(ptr, freed, imagePages) ==
    LET fail(r, n) == [res |-> r, next |-> n, pt |-> EmptyTable, rd |-> 0]
        done(im, resource_descriptors) ==
            IF resource_descriptors.res # "Ok"
            THEN fail(resource_descriptors.res, resource_descriptors.next)
            ELSE [res |-> "Ok", next |-> resource_descriptors.next, pt |-> im.pt,
                  rd |-> resource_descriptors.ptr]
        mapped(im) ==
            IF im.res # "Ok" THEN fail(im.res, im.next)
            ELSE done(im, alloc_pages(im.next, freed, RdPages))
        with_kernel(km) ==
            IF km.res # "Ok" THEN fail(km.res, km.next)
            ELSE mapped(alloc_and_map_slice(km.pt, km.next, freed, USER_BASE_PAGE,
                                            imagePages, USER_PAGE_FLAGS))
        with_table(page_table) ==
            IF page_table.res # "Ok" THEN fail(page_table.res, page_table.next)
            ELSE with_kernel(map_kernel_memory(EmptyTable, page_table.next, freed))
        with_stack(kernel_stack) ==
            IF kernel_stack.res # "Ok" THEN fail(kernel_stack.res, kernel_stack.next)
            ELSE with_table(alloc_pages(kernel_stack.next, freed, 1))
    IN with_stack(alloc_pages(ptr, freed, DivCeil(KERNEL_STACK_SIZE, 4096)))

SchedInit ==
    /\ procState = [s \in Slots |-> "Unused"]
    /\ procPid = [s \in Slots |-> 0]
    /\ procMmapHead = [s \in Slots |-> 0]
    /\ procRd = [s \in Slots |-> EmptyRd]
    /\ procRdPtr = [s \in Slots |-> 0]
    /\ procPt = [s \in Slots |-> EmptyTable]
    /\ CURRENT_PROC_SLOT = MAX_PROCS
    /\ PID_COUNTER = 1
    /\ booted = FALSE

\* a slot search that also takes the slot of a process that has exited
find_unused_or_exited(st) ==
    IF \A s \in Slots : st[s] \notin {"Unused", "Exited"} THEN -1
    ELSE Min({s \in Slots : st[s] \in {"Unused", "Exited"}})

\* Process::create_process's search of PROCS_BUF: the first slot whose state
\* is Unused, or -1 when there is none.
find_unused(st) ==
    IF \A s \in Slots : st[s] # "Unused" THEN -1
    ELSE Min({s \in Slots : st[s] = "Unused"})

\* Process::create_process.
ProcessCreate(imagePages) ==
    /\ panicked = "none"
    /\ IF find_unused(procState) = -1
       THEN /\ panicked' = "Out of space for processes"
            /\ UNCHANGED <<schedVars, pageVars>>
       ELSE LET buf_idx == find_unused(procState)
                place(r) ==
               /\ NEXT_PTR' = r.next
               /\ IF r.res = "Ok"
                  THEN /\ procState' = [procState EXCEPT ![buf_idx] = "Runnable"]
                       /\ procPid' = [procPid EXCEPT ![buf_idx] = PID_COUNTER]
                       /\ PID_COUNTER' = PID_COUNTER + 1
                       /\ procMmapHead' = [procMmapHead EXCEPT ![buf_idx] = MMAP_BASE_PAGE]
                       /\ procRd' = [procRd EXCEPT ![buf_idx] = EmptyRd]
                       /\ procRdPtr' = [procRdPtr EXCEPT ![buf_idx] = r.rd]
                       /\ procPt' = [procPt EXCEPT ![buf_idx] = r.pt]
                       /\ UNCHANGED panicked
                  ELSE /\ panicked' = IF r.res = "panic" THEN "alloc_pages panicked" ELSE panicked
                       /\ UNCHANGED <<procState, procPid, PID_COUNTER, procMmapHead, procRd,
                                      procRdPtr, procPt>>
               /\ UNCHANGED <<CURRENT_PROC_SLOT, booted, FREED_PAGES, live, allocPc, allocHead,
                              allocN, allocCalls>>
            IN place(create_process(NEXT_PTR, FREED_PAGES, imagePages))
    /\ UNCHANGED <<debug_assertions, FreeRamEnd, nonSched>>

\* kernel_main's calls of Process::create_process, before the first switch.
CreateProcess(imagePages) ==
    /\ ~booted
    /\ ProcessCreate(imagePages)

\* Process::set_idle on a process kernel_main has just created.
SetIdle(s) ==
    /\ panicked = "none"
    /\ ~booted
    /\ procState[s] = "Runnable"
    /\ procState' = [procState EXCEPT ![s] = "Idle"]
    /\ UNCHANGED <<debug_assertions, FreeRamEnd, panicked, procPid, procMmapHead, procRd, procRdPtr, procPt,
                   CURRENT_PROC_SLOT, PID_COUNTER, booted, pageVars, nonSched>>

\* switch_context(old, new): the debug assertion, then CURRENT_PROC_SLOT.store.
switch_context(dbg, st, new) ==
    IF dbg /\ st[new] # "Runnable"
    THEN [cur |-> -1, panic |-> "New process should be runnable"]
    ELSE [cur |-> new, panic |-> "none"]

\* kernel_main's switch_context(&mut idle_proc, &mut user_proc).
BootSwitch(old, new) ==
    /\ panicked = "none"
    /\ ~booted
    /\ procState[old] = "Idle"
    /\ procState[new] = "Runnable"
    /\ booted' = TRUE
    /\ CURRENT_PROC_SLOT' = switch_context(debug_assertions, procState, new).cur
    /\ UNCHANGED <<debug_assertions, FreeRamEnd, panicked, procState, procPid, procMmapHead, procRd, procRdPtr,
                   procPt, PID_COUNTER, pageVars, nonSched>>

\* a selection that takes the lowest slot other than the current one, whatever its state
next_slot_in_order(st, cur) ==
    IF \E s \in Slots : s # cur THEN Min({s \in Slots : s # cur}) ELSE cur

\* a selection that skips Unused slots only: an Exited slot may run again
next_proc_not_unused(st, cur) ==
    IF \E s \in Slots : s # cur /\ st[s] # "Unused"
    THEN Min({s \in Slots : s # cur /\ st[s] # "Unused"})
    ELSE cur

\* next_proc_to_run: the lowest Runnable slot other than the current one, else
\* the current one if Runnable, else the lowest Idle slot, else todo!() (-1).
next_proc_to_run(st, cur) ==
    IF \E s \in Slots : s # cur /\ st[s] = "Runnable"
    THEN Min({s \in Slots : s # cur /\ st[s] = "Runnable"})
    ELSE IF st[cur] = "Runnable"
    THEN cur
    ELSE IF \E s \in Slots : st[s] = "Idle"
    THEN Min({s \in Slots : st[s] = "Idle"})
    ELSE -1

\* sched_yield: the slot that runs next and the panic, if any.
sched_yield(dbg, st, cur) ==
    LET next_slot_idx == next_proc_to_run(st, cur) IN
    IF next_slot_idx = -1
    THEN [cur |-> cur, panic |-> "not yet implemented: Nothing runnable right now"]
    ELSE IF next_slot_idx # cur
    THEN LET sw == switch_context(dbg, st, next_slot_idx) IN
         IF sw.panic # "none" THEN [cur |-> cur, panic |-> sw.panic] ELSE sw
    ELSE [cur |-> cur, panic |-> "none"]

\* The running process (or kernel_main's idle loop) calls sched_yield.
SchedYield ==
    /\ panicked = "none"
    /\ booted
    /\ LET y == sched_yield(debug_assertions, procState, CURRENT_PROC_SLOT) IN
       /\ CURRENT_PROC_SLOT' = y.cur
       /\ panicked' = y.panic
    /\ UNCHANGED <<debug_assertions, FreeRamEnd, procState, procPid, procMmapHead, procRd, procRdPtr, procPt,
                   PID_COUNTER, booted, pageVars, nonSched>>

(***************************************************************************)
(* 4.C2 Context switch (src/src/proc.rs, src/src/main.rs)                  *)
(***************************************************************************)
\* registers switch_context_inner saves: ra, s0 .. s11
SAVED_REGS == 13
\* registers kernel_trap_entry saves below sscratch
TRAP_FRAME_REGS == 31
\* __stack_top: boot() starts kernel_main on the stack that ends where free
\* RAM begins; map_kernel_memory maps it into every process's table.
STACK_TOP == <<FreeRam, 0>>
\* the address of user_entry
user_entry == 1
\* a word of RAM nothing has written since reset
Uninit == 0
\* a word holding bytes read_file_from_offset copied from the disk
FileBytes == -1

\* Register files the compiled kernel code may hold when it calls
\* switch_context_inner, and the bytes of stack its frames take up to there.
RegFiles == { [i \in 1 .. SAVED_REGS |-> 16 * v + i] : v \in 1 .. MaxRegFiles }
FrameDepths == { 16 * k : k \in 1 .. MaxFrames }

\* byte address a + n (n may be negative), modulo the address space
AddrAdd(a, n) == <<WrapPage(a[1] + (a[2] + n) \div PAGE_SIZE), (a[2] + n) % PAGE_SIZE>>
\* lw
Load(km, a) == IF a \in DOMAIN km THEN km[a] ELSE Uninit
\* the thirteen sw of switch_context_inner: rs[i] at (i - 1) * 4 (at)
push_regs(km, at, rs) ==
    LET slot(i) == AddrAdd(at, 4 * (i - 1))
        slots == { slot(i) : i \in 1 .. SAVED_REGS }
    IN [x \in DOMAIN km \cup slots |->
          IF x \in slots THEN rs[CHOOSE i \in 1 .. SAVED_REGS : slot(i) = x] ELSE km[x]]

\* switch_context_inner(old_sp, new_sp), called with registers rs and stack
\* pointer stack: memory after the saves, the value stored through old_sp,
\* the registers and stack pointer at `ret`.
switch_context_inner(km, rs, stack, new_sp) ==
    LET loaded(mem, saved) ==
            [mem |-> mem, old_sp |-> saved,
             regs |-> [i \in 1 .. SAVED_REGS |-> Load(mem, AddrAdd(new_sp, 4 * (i - 1)))],
             sp |-> AddrAdd(new_sp, SAVED_REGS * 4)]
        pushed(saved) == loaded(push_regs(km, saved, rs), saved)
    IN pushed(AddrAdd(stack, -(SAVED_REGS * 4)))

NeverAway == [valid |-> FALSE, regs |-> <<>>, sp |-> <<0, 0>>]

CtxInit ==
    /\ regs = [i \in 1 .. SAVED_REGS |-> Uninit]
    /\ sp = STACK_TOP
    /\ sscratch = <<0, 0>>
    /\ procSp = [s \in Slots |-> <<0, 0>>]
    /\ procKernelStack = [s \in Slots |-> 0]
    /\ kmem = <<>>
    /\ switchedAway = [s \in Slots |-> NeverAway]

\* ProcessInner::create_process for each image in turn, stopping at the first
\* failure: what create_process returns, with the kernel stack it allocated.
RECURSIVE create_procs(_, _, _)
create_procs(ptr, freed, images) ==
    IF images = <<>> THEN <<>>
    ELSE LET rest(p) == IF p.res = "Ok"
                        THEN <<p>> \o create_procs(p.next, freed, Tail(images))
                        ELSE <<p>>
             made(kernel_stack, p) ==
                 rest([res |-> p.res, next |-> p.next, pt |-> p.pt, rd |-> p.rd,
                       kernel_stack |-> kernel_stack.ptr])
         IN made(alloc_pages(ptr, freed, DivCeil(KERNEL_STACK_SIZE, 4096)),
                 create_process(ptr, freed, Head(images)))

\* the sp create_process prepares: 52 bytes below the top of the kernel stack
InitialSp(kernel_stack) == AddrAdd(<<kernel_stack, 0>>, KERNEL_STACK_SIZE - 52)

\* kernel_main with n user processes ahead of the idle process: every
\* create_process, set_idle, then switch_context(&mut idle_proc, &mut user_proc)
\* called with registers rf, depth bytes down the boot stack.
CtxBoot(n, rf, depth) ==
    /\ panicked = "none"
    /\ ~booted
    /\ \A s \in Slots : procState[s] = "Unused"
    /\ LET images == [i \in 1 .. n |-> UserImagePages] \o <<0>>
           switched(ps, inner) ==
               /\ procSp' = [s \in Slots |->
                               IF s = n THEN inner.old_sp
                               ELSE IF s < n THEN InitialSp(ps[s + 1].kernel_stack)
                               ELSE procSp[s]]
               /\ regs' = inner.regs
               /\ sp' = inner.sp
               /\ kmem' = inner.mem
           boot(ps) ==
               IF Len(ps) < n + 1 \/ ps[Len(ps)].res # "Ok"
               THEN /\ panicked' = "create_process failed"
                    /\ UNCHANGED <<schedVars, NEXT_PTR, ctxVars>>
               ELSE /\ procState' = [s \in Slots |-> IF s < n THEN "Runnable"
                                                     ELSE IF s = n THEN "Idle" ELSE procState[s]]
                    /\ procPid' = [s \in Slots |-> IF s <= n THEN PID_COUNTER + s ELSE procPid[s]]
                    /\ PID_COUNTER' = PID_COUNTER + n + 1
                    /\ procMmapHead' = [s \in Slots |-> IF s <= n THEN MMAP_BASE_PAGE
                                                        ELSE procMmapHead[s]]
                    /\ procRdPtr' = [s \in Slots |-> IF s <= n THEN ps[s + 1].rd ELSE procRdPtr[s]]
                    /\ procPt' = [s \in Slots |-> IF s <= n THEN ps[s + 1].pt ELSE procPt[s]]
                    /\ procKernelStack' = [s \in Slots |-> IF s <= n THEN ps[s + 1].kernel_stack
                                                           ELSE procKernelStack[s]]
                    /\ NEXT_PTR' = ps[n + 1].next
                    /\ booted' = TRUE
                    /\ LET sw == switch_context(debug_assertions, procState', 0) IN
                       /\ CURRENT_PROC_SLOT' = sw.cur
                       /\ panicked' = sw.panic
                    /\ sscratch' = <<ps[1].kernel_stack + 1, 0>>
                    /\ switchedAway' = [switchedAway EXCEPT
                           ![n] = [valid |-> TRUE, regs |-> rf, sp |-> AddrAdd(STACK_TOP, -depth)]]
                    /\ switched(ps, switch_context_inner(
                           [a \in { InitialSp(ps[i].kernel_stack) : i \in 1 .. (n + 1) } |->
                              user_entry],
                           rf, AddrAdd(STACK_TOP, -depth), InitialSp(ps[1].kernel_stack)))
                    /\ UNCHANGED procRd
       IN boot(create_procs(NEXT_PTR, FREED_PAGES, images))
    /\ UNCHANGED <<debug_assertions, FreeRamEnd, FREED_PAGES, live, allocPc, allocHead, allocN, allocCalls,
                   sysVars, guardVars, rcVars, onceVars, spinVars, lazyVars, moreVars, heapVars>>

\* sched_yield, called by the running process with registers rf: from its
\* syscall, depth bytes below its trap frame, or from kernel_main's idle
\* loop, depth bytes down the boot stack.
CtxYield(rf, depth) ==
    /\ panicked = "none"
    /\ booted
    /\ CURRENT_PROC_SLOT \in Slots
    /\ LET cur == CURRENT_PROC_SLOT
           stack == IF procState[cur] = "Idle"
                    THEN AddrAdd(STACK_TOP, -depth)
                    ELSE AddrAdd(sscratch, -(TRAP_FRAME_REGS * 4) - depth)
           switched(new, inner) ==
               /\ CURRENT_PROC_SLOT' = new
               /\ sscratch' = <<procKernelStack[new] + 1, 0>>
               /\ procSp' = [procSp EXCEPT ![cur] = inner.old_sp]
               /\ regs' = inner.regs
               /\ sp' = inner.sp
               /\ kmem' = inner.mem
               /\ switchedAway' = [switchedAway EXCEPT
                      ![cur] = [valid |-> TRUE, regs |-> rf, sp |-> stack]]
               /\ UNCHANGED <<panicked, procKernelStack>>
           yielded(y) ==
               IF y.panic # "none"
               THEN /\ panicked' = y.panic
                    /\ UNCHANGED <<CURRENT_PROC_SLOT, ctxVars>>
               ELSE IF y.cur = cur
               THEN UNCHANGED <<panicked, CURRENT_PROC_SLOT, ctxVars>>
               ELSE switched(y.cur, switch_context_inner(kmem, rf, stack, procSp[y.cur]))
       IN yielded(sched_yield(debug_assertions, procState, cur))
    /\ UNCHANGED <<debug_assertions, FreeRamEnd, procState, procPid, procMmapHead, procRd, procRdPtr, procPt,
                   PID_COUNTER, booted, pageVars, sysVars, guardVars, rcVars, onceVars, spinVars,
                   lazyVars, moreVars, heapVars>>

\* the pages that hold the boot stack and the kernel stacks
StackPages ==
    {STACK_TOP[1] - 1} \cup { procKernelStack[s] : s \in { t \in Slots : procState[t] # "Unused" } }

\* copy_from_slice of len bytes into the buffer at region, through page table
\* pt: a store to a page pt does not map Valid + Writable traps; the words of
\* the stack pages it reaches hold disk bytes afterwards.
copy_from_slice(pt, km, stacks, region, len) ==
    LET bytes == { AddrAdd(<<region[1], region[2]>>, i) : i \in 0 .. (len - 1) }
        Mapped(vpn) == LET e == entry_for_vaddr(pt, vpn) IN
                       e.kind = "Some" /\ contains(e.flags, {"Valid", "Writable"})
        words == { <<entry_for_vaddr(pt, b[1]).paddr, b[2] - (b[2] % 4)>> :
                     b \in { w \in bytes : Mapped(w[1]) } }
        hit == { w \in words : w[1] \in stacks }
    IN [fault |-> \E b \in bytes : ~Mapped(b[1]),
        mem |-> [x \in DOMAIN km \cup hit |-> IF x \in hit THEN FileBytes ELSE km[x]]]

(***************************************************************************)
(* 4.D Reference-counted box (src/src/alloc/rc.rs)                         *)
(***************************************************************************)
\* usize::MAX as a two's-complement value
USIZE_MAX == -1

\* An increment that wraps: usize::MAX + 1 is 0.
wrapping_add(x) == IF x = USIZE_MAX THEN 0 ELSE x + 1

saturating_add(x) == IF x = USIZE_MAX THEN USIZE_MAX ELSE x + 1
saturating_sub(x) == IF x = 0 THEN 0 ELSE x - 1

\* A clone that leaves the count as it found it.
increment_forgotten(old_count) == old_count

\* increment_atomic_saturating: the value the compare-exchange installs
increment_new_count(old_count) == saturating_add(old_count)
\* decrement_if_unsaturated: the value the compare-exchange installs
decrement_new_count(old_count) == saturating_sub(old_count)

\* KrcBox::new: one handle, refcount 1.
RcInit ==
    /\ refcount = 1
    /\ rcOwned = [t \in Threads |-> IF t = 1 THEN 1 ELSE 0]
    /\ rcPc = [t \in Threads |-> "idle"]
    /\ rcOld = [t \in Threads |-> 0]
    /\ rcDestroyed = 0
    /\ rcFreed = 0

RcQuiet == RcInit

RECURSIVE SumOver(_, _)
SumOver(f, S) == IF S = {} THEN 0 ELSE LET x == CHOOSE y \in S : TRUE IN f[x] + SumOver(f, S \ {x})

\* handles that exist: held ones, plus those whose drop has not yet
\* decremented the count
RcInDrop == Cardinality({t \in Threads : rcPc[t] = "dropCas"})
RcLive == SumOver(rcOwned, Threads) + RcInDrop

\* clone: increment_atomic_saturating loads the count (rc.rs:139).
RcCloneLoad(t) ==
    /\ rcPc[t] = "idle"
    /\ rcOwned[t] >= 1
    /\ RcLive < MaxHandles
    /\ rcPc' = [rcPc EXCEPT ![t] = "cloneCas"]
    /\ rcOld' = [rcOld EXCEPT ![t] = refcount]
    /\ UNCHANGED <<nonRc, refcount, rcOwned, rcDestroyed, rcFreed>>

\* clone: one compare_exchange_weak (rc.rs:141-154); on success the new
\* handle exists.
RcCloneCas(t) ==
    /\ rcPc[t] = "cloneCas"
    /\ IF refcount = rcOld[t]
       THEN /\ refcount' = increment_new_count(rcOld[t])
            /\ rcOwned' = [rcOwned EXCEPT ![t] = @ + 1]
            /\ rcPc' = [rcPc EXCEPT ![t] = "idle"]
            /\ UNCHANGED rcOld
       ELSE /\ rcOld' = [rcOld EXCEPT ![t] = refcount]
            /\ UNCHANGED <<refcount, rcOwned, rcPc>>
    /\ UNCHANGED <<nonRc, rcDestroyed, rcFreed>>

\* drop: decrement_if_unsaturated loads the count (rc.rs:160).
RcDropLoad(t) ==
    /\ rcPc[t] = "idle"
    /\ rcOwned[t] >= 1
    /\ rcOwned' = [rcOwned EXCEPT ![t] = @ - 1]
    /\ rcPc' = [rcPc EXCEPT ![t] = "dropCas"]
    /\ rcOld' = [rcOld EXCEPT ![t] = refcount]
    /\ UNCHANGED <<nonRc, refcount, rcDestroyed, rcFreed>>

\* drop: the saturation test and one compare_exchange_weak (rc.rs:162-178).
RcDropCas(t) ==
    /\ rcPc[t] = "dropCas"
    /\ IF rcOld[t] = USIZE_MAX
       THEN /\ rcPc' = [rcPc EXCEPT ![t] = "idle"]
            /\ UNCHANGED <<refcount, rcOld>>
       ELSE IF refcount = rcOld[t]
       THEN /\ refcount' = decrement_new_count(rcOld[t])
            /\ rcPc' = [rcPc EXCEPT ![t] =
                          IF decrement_new_count(rcOld[t]) = 0 THEN "destroy" ELSE "idle"]
            /\ UNCHANGED rcOld
       ELSE /\ rcOld' = [rcOld EXCEPT ![t] = refcount]
            /\ UNCHANGED <<refcount, rcPc>>
    /\ UNCHANGED <<nonRc, rcOwned, rcDestroyed, rcFreed>>

\* drop: the count reached zero, drop_in_place on the payload (rc.rs:108).
RcDestroy(t) ==
    /\ rcPc[t] = "destroy"
    /\ rcDestroyed' = rcDestroyed + 1
    /\ rcPc' = [rcPc EXCEPT ![t] = "free"]
    /\ UNCHANGED <<nonRc, refcount, rcOwned, rcOld, rcFreed>>

\* drop: deallocate_inner on the header (rc.rs:112).
RcFree(t) ==
    /\ rcPc[t] = "free"
    /\ rcFreed' = rcFreed + 1
    /\ rcPc' = [rcPc EXCEPT ![t] = "idle"]
    /\ UNCHANGED <<nonRc, refcount, rcOwned, rcOld, rcDestroyed>>

\* A handle is moved to another thread (KrcBox is Send).
RcSend(t, u) ==
    /\ t # u
    /\ rcPc[t] = "idle"
    /\ rcOwned[t] >= 1
    /\ rcOwned' = [rcOwned EXCEPT ![t] = @ - 1, ![u] = @ + 1]
    /\ UNCHANGED <<nonRc, refcount, rcPc, rcOld, rcDestroyed, rcFreed>>

RcNext ==
    \/ \E t \in Threads : RcCloneLoad(t)
    \/ \E t \in Threads : RcCloneCas(t)
    \/ \E t \in Threads : RcDropLoad(t)
    \/ \E t \in Threads : RcDropCas(t)
    \/ \E t \in Threads : RcDestroy(t)
    \/ \E t \in Threads : RcFree(t)
    \/ \E t, u \in Threads : RcSend(t, u)

\* The count next to saturation.  A KrcBox handle that is leaked
\* (core::mem::forget) keeps its count, so a box whose handles were cloned
\* and leaked usize::MAX - 2 times holds refcount = usize::MAX - 1 with one
\* handle left.  Two harts clone, drop and send from there, or from a new box.
SatStarts == {1, USIZE_MAX - 1}
SatThreads == {1, 2}

RcSatInit ==
    /\ refcount \in SatStarts
    /\ rcOwned = [t \in Threads |-> IF t = 1 THEN 1 ELSE 0]
    /\ rcPc = [t \in Threads |-> "idle"]
    /\ rcOld = [t \in Threads |-> 0]
    /\ rcDestroyed = 0
    /\ rcFreed = 0

RcSatNext ==
    \/ \E t \in SatThreads : RcCloneLoad(t)
    \/ \E t \in SatThreads : RcCloneCas(t)
    \/ \E t \in SatThreads : RcDropLoad(t)
    \/ \E t \in SatThreads : RcDropCas(t)
    \/ \E t \in SatThreads : RcDestroy(t)
    \/ \E t \in SatThreads : RcFree(t)
    \/ \E t, u \in SatThreads : RcSend(t, u)


(***************************************************************************)
(* 4.E OnceLock (src/util/src/cell.rs)                                     *)
(***************************************************************************)
OnceValues == {"a", "b"}
NoGet == [some |-> FALSE, value |-> "pending"]
\* What set returns: Ok(()) or Err(value)
NoSet == [res |-> "pending", value |-> "none"]
SetOk == [res |-> "Ok", value |-> "unit"]
SetErr(value) == [res |-> "Err", value |-> value]

\* A test of the Locked flag that never finds it set.
locked_never(flags) == FALSE

\* OnceLockFlags::locked
locked(flags) == "Locked" \in flags

\* OnceLock::get: what the caller receives from the flags and the cell as
\* they are at the load.
get(flags, value) ==
    IF locked(flags) THEN [some |-> TRUE, value |-> value]
    ELSE [some |-> FALSE, value |-> "None"]

\* OnceLock::new
OnceInit ==
    /\ onceFlags = {}
    /\ onceValue = "uninit"
    /\ oncePc = [t \in Threads |-> "idle"]
    /\ onceArg = [t \in Threads |-> "a"]
    /\ onceGot = [t \in Threads |-> NoGet]
    /\ onceSet = [t \in Threads |-> NoSet]
    /\ onceOps = 0
    /\ onceHist = [built |-> "new", oks |-> 0, errs |-> 0, last |-> 0]

OnceQuiet == OnceInit

\* OnceLock::new or OnceLock::from(v) (cell.rs:95-100, 144-151)
OnceAnyInit ==
    /\ \/ /\ onceFlags = {}
          /\ onceValue = "uninit"
          /\ onceHist = [built |-> "new", oks |-> 0, errs |-> 0, last |-> 0]
       \/ /\ onceFlags = {"Locked", "Initialized"}
          /\ onceValue \in OnceValues
          /\ onceHist = [built |-> "from", oks |-> 0, errs |-> 0, last |-> 0]
    /\ oncePc = [t \in Threads |-> "idle"]
    /\ onceArg = [t \in Threads |-> "a"]
    /\ onceGot = [t \in Threads |-> NoGet]
    /\ onceSet = [t \in Threads |-> NoSet]
    /\ onceOps = 0

OnceGet(t) ==
    /\ oncePc[t] = "idle"
    /\ onceOps < MaxOnceOps
    /\ onceOps' = onceOps + 1
    /\ onceGot' = [onceGot EXCEPT ![t] = get(onceFlags, onceValue)]
    /\ UNCHANGED <<nonOnce, onceFlags, onceValue, oncePc, onceArg, onceSet, onceHist>>

\* set: fetch_or(LOCKED) and the early return (cell.rs:121-127).
OnceSetLock(t, v) ==
    /\ oncePc[t] = "idle"
    /\ onceOps < MaxOnceOps
    /\ onceOps' = onceOps + 1
    /\ onceFlags' = onceFlags \cup {"Locked"}
    /\ onceArg' = [onceArg EXCEPT ![t] = v]
    /\ IF locked(onceFlags)
       THEN /\ onceSet' = [onceSet EXCEPT ![t] = SetErr(v)]
            /\ onceHist' = [onceHist EXCEPT !.errs = @ + 1, !.last = t]
            /\ UNCHANGED oncePc
       ELSE /\ oncePc' = [oncePc EXCEPT ![t] = "write"]
            /\ onceSet' = [onceSet EXCEPT ![t] = NoSet]
            /\ UNCHANGED onceHist
    /\ UNCHANGED <<nonOnce, onceValue, onceGot>>

\* set: the write into the cell (cell.rs:130).
OnceSetWrite(t) ==
    /\ oncePc[t] = "write"
    /\ onceValue' = onceArg[t]
    /\ oncePc' = [oncePc EXCEPT ![t] = "publish"]
    /\ UNCHANGED <<nonOnce, onceFlags, onceArg, onceGot, onceSet, onceOps, onceHist>>

\* set: fetch_or(INITIALIZED) and Ok(()) (cell.rs:131-135).
OnceSetPublish(t) ==
    /\ oncePc[t] = "publish"
    /\ onceFlags' = onceFlags \cup {"Initialized"}
    /\ onceSet' = [onceSet EXCEPT ![t] = SetOk]
    /\ onceHist' = [onceHist EXCEPT !.oks = @ + 1, !.last = t]
    /\ oncePc' = [oncePc EXCEPT ![t] = "idle"]
    /\ UNCHANGED <<nonOnce, onceValue, onceArg, onceGot, onceOps>>

OnceNext ==
    \/ \E t \in Threads : OnceGet(t)
    \/ \E t \in Threads, v \in OnceValues : OnceSetLock(t, v)
    \/ \E t \in Threads : OnceSetWrite(t)
    \/ \E t \in Threads : OnceSetPublish(t)

(***************************************************************************)
(* 4.E KSpinLock (src/src/sync.rs)                                         *)
(***************************************************************************)
NoTry == [before |-> FALSE, after |-> FALSE, res |-> "pending"]

\* A try_lock that hands out a guard without looking at the flag.
try_lock_unchecked(f) == {[ok |-> TRUE, flag |-> TRUE]}

\* try_lock: the outcomes of compare_exchange_weak(false, true); a weak
\* exchange may fail although the flag is clear.
try_lock(f) ==
    IF f = FALSE
    THEN {[ok |-> TRUE, flag |-> TRUE], [ok |-> FALSE, flag |-> FALSE]}
    ELSE {[ok |-> FALSE, flag |-> TRUE]}

\* KSpinLock::new
SpinInit ==
    /\ flag = FALSE
    /\ guards = [t \in Threads |-> 0]
    /\ spinPc = [t \in Threads |-> "idle"]
    /\ spinTry = [t \in Threads |-> NoTry]

SpinQuiet == SpinInit

\* A call of try_lock from outside lock().
SpinTryLock(t) ==
    /\ spinPc[t] = "idle"
    /\ \E o \in try_lock(flag) :
        /\ flag' = o.flag
        /\ guards' = [guards EXCEPT ![t] = IF o.ok THEN @ + 1 ELSE @]
        /\ spinTry' = [spinTry EXCEPT ![t] =
                         [before |-> flag, after |-> o.flag,
                          res |-> IF o.ok THEN "Some" ELSE "None"]]
    /\ UNCHANGED <<nonSpin, spinPc>>

\* lock(): entry into the loop.
SpinLockBegin(t) ==
    /\ spinPc[t] = "idle"
    /\ spinPc' = [spinPc EXCEPT ![t] = "try"]
    /\ UNCHANGED <<nonSpin, flag, guards, spinTry>>

\* lock(): one try_lock of the loop.
SpinLockTry(t) ==
    /\ spinPc[t] = "try"
    /\ \E o \in try_lock(flag) :
        /\ flag' = o.flag
        /\ guards' = [guards EXCEPT ![t] = IF o.ok THEN @ + 1 ELSE @]
        /\ spinPc' = [spinPc EXCEPT ![t] = IF o.ok THEN "idle" ELSE "yield"]
    /\ UNCHANGED <<nonSpin, spinTry>>

\* lock(): the sched_yield between two attempts.
SpinLockYield(t) ==
    /\ spinPc[t] = "yield"
    /\ spinPc' = [spinPc EXCEPT ![t] = "try"]
    /\ UNCHANGED <<nonSpin, flag, guards, spinTry>>

\* Drop of a KSpinLockGuard.
SpinGuardDrop(t) ==
    /\ spinPc[t] = "idle"
    /\ guards[t] >= 1
    /\ flag' = FALSE
    /\ guards' = [guards EXCEPT ![t] = @ - 1]
    /\ UNCHANGED <<nonSpin, spinPc, spinTry>>

SpinNext ==
    \/ \E t \in Threads : SpinTryLock(t)
    \/ \E t \in Threads : SpinLockBegin(t)
    \/ \E t \in Threads : SpinLockTry(t)
    \/ \E t \in Threads : SpinLockYield(t)
    \/ \E t \in Threads : SpinGuardDrop(t)

(***************************************************************************)
(* 4.E LazyLock (src/src/sync.rs)                                          *)
(***************************************************************************)
NoSwap == [started |-> FALSE, finished |-> FALSE, done |-> FALSE]

\* A swap that always reports the flag as clear.
swap_blind(old) == FALSE

\* started.swap(true): the value the swap hands back
swap(old) == old

\* LazyLock::new
LazyInit ==
    /\ started = FALSE
    /\ finished = FALSE
    /\ lazyValue = "uninit"
    /\ lazyRuns = 0
    /\ lazyPc = [t \in Threads |-> "idle"]
    /\ lazySaw = [t \in Threads |-> NoSwap]

LazyQuiet == LazyInit

\* force: the load of finished (sync.rs:140); a set flag returns the value.
LazyLoad(t) ==
    /\ lazyPc[t] \in {"idle", "returned"}
    /\ lazyPc' = [lazyPc EXCEPT ![t] = IF finished THEN "returned" ELSE "loaded"]
    /\ UNCHANGED <<nonLazy, started, finished, lazyValue, lazyRuns, lazySaw>>

\* force: started.swap(true) and the panic (sync.rs:147-149).
LazySwap(t) ==
    /\ lazyPc[t] = "loaded"
    /\ started' = TRUE
    /\ lazySaw' = [lazySaw EXCEPT ![t] =
                     [started |-> started, finished |-> finished, done |-> TRUE]]
    /\ lazyPc' = [lazyPc EXCEPT ![t] = IF swap(started) THEN "panicked" ELSE "init"]
    /\ UNCHANGED <<nonLazy, finished, lazyValue, lazyRuns>>

\* force: the init function runs and its result is written (sync.rs:151-154).
LazyRunInit(t) ==
    /\ lazyPc[t] = "init"
    /\ lazyRuns' = lazyRuns + 1
    /\ lazyValue' = "init"
    /\ lazyPc' = [lazyPc EXCEPT ![t] = "store"]
    /\ UNCHANGED <<nonLazy, started, finished, lazySaw>>

\* force: finished.store(true) and the return (sync.rs:155-156).
LazyStore(t) ==
    /\ lazyPc[t] = "store"
    /\ finished' = TRUE
    /\ lazyPc' = [lazyPc EXCEPT ![t] = "returned"]
    /\ UNCHANGED <<nonLazy, started, lazyValue, lazyRuns, lazySaw>>

LazyNext ==
    \/ \E t \in Threads : LazyLoad(t)
    \/ \E t \in Threads : LazySwap(t)
    \/ \E t \in Threads : LazyRunInit(t)
    \/ \E t \in Threads : LazyStore(t)


(***************************************************************************)
(* 4.G Atomic (src/util/src/sync/atomic.rs)                                *)
(***************************************************************************)
\* Atomic<u8> dispatches to AtomicU8: values are taken modulo 2^8.
U8_RANGE == 256
\* the orderings a caller passes: one that every operation accepts and one
\* with a release part
Orderings == {"Relaxed", "AcqRel"}
\* core's load, and the failure ordering of compare_exchange, panic on these.
NoLoadOrderings == {"Release", "AcqRel"}
\* the closures handed to update: |x| x.wrapping_add(1) and |x| x.wrapping_sub(1)
UpdateFns == {"inc", "dec"}
apply(f, x) == IF f = "inc" THEN (x + 1) % U8_RANGE ELSE (x + U8_RANGE - 1) % U8_RANGE

NoCall == [f |-> "inc", set_order |-> "Relaxed", fetch_order |-> "Relaxed"]
NoRet == [some |-> FALSE, value |-> 0]

\* A compare-exchange that stores without comparing.
store_unconditionally(cur, current, new) == [ok |-> TRUE, value |-> new, prev |-> current]

\* Atomic::compare_exchange on a cell holding cur: Ok(previous) and the new
\* value stored, or Err(previous) and the cell as it was.
compare_exchange(cur, current, new) ==
    IF cur = current THEN [ok |-> TRUE, value |-> new, prev |-> cur]
    ELSE [ok |-> FALSE, value |-> cur, prev |-> cur]

\* Atomic::new(0)
AtomInit ==
    /\ atomValue = 0
    /\ atomPc = [t \in Threads |-> "idle"]
    /\ atomCall = [t \in Threads |-> NoCall]
    /\ atomFetched = [t \in Threads |-> 0]
    /\ atomRet = [t \in Threads |-> NoRet]
    /\ atomHist = [calls |-> 0, inc |-> 0, dec |-> 0, retries |-> 0]

AtomQuiet == AtomInit

\* update(set_order, fetch_order, f) is entered (atomic.rs:231-237).
AtomUpdateCall(t, f, set_order, fetch_order) ==
    /\ atomPc[t] = "idle"
    /\ atomHist.calls < MaxUpdates
    /\ atomHist' = [atomHist EXCEPT !.calls = @ + 1]
    /\ atomCall' = [atomCall EXCEPT ![t] =
                      [f |-> f, set_order |-> set_order, fetch_order |-> fetch_order]]
    /\ atomRet' = [atomRet EXCEPT ![t] = NoRet]
    /\ atomPc' = [atomPc EXCEPT ![t] = "load"]
    /\ UNCHANGED <<nonAtom, atomValue, atomFetched>>

\* update_weak: self.load(fetch_order) (atomic.rs:216).
AtomUpdateLoad(t) ==
    /\ atomPc[t] = "load"
    /\ IF atomCall[t].fetch_order \in NoLoadOrderings
       THEN /\ atomPc' = [atomPc EXCEPT ![t] = "panicked"]
            /\ atomCall' = [atomCall EXCEPT ![t] = NoCall]
            /\ UNCHANGED atomFetched
       ELSE /\ atomFetched' = [atomFetched EXCEPT ![t] = atomValue]
            /\ atomPc' = [atomPc EXCEPT ![t] = "cas"]
            /\ UNCHANGED atomCall
    /\ UNCHANGED <<nonAtom, atomValue, atomRet, atomHist>>

\* update_weak: new = update(fetched); compare_exchange(fetched, new,
\* set_order, set_order); update returns on Ok and loops on Err
\* (atomic.rs:217-218, 237-241).
AtomUpdateCas(t) ==
    /\ atomPc[t] = "cas"
    /\ IF atomCall[t].set_order \in NoLoadOrderings
       THEN /\ atomPc' = [atomPc EXCEPT ![t] = "panicked"]
            /\ atomCall' = [atomCall EXCEPT ![t] = NoCall]
            /\ atomFetched' = [atomFetched EXCEPT ![t] = 0]
            /\ UNCHANGED <<atomValue, atomRet, atomHist>>
       ELSE LET done(r) ==
                  /\ atomValue' = r.value
                  /\ IF r.ok
                     THEN /\ atomRet' = [atomRet EXCEPT ![t] = [some |-> TRUE, value |-> r.prev]]
                          /\ atomHist' = [atomHist EXCEPT ![atomCall[t].f] = @ + 1]
                          /\ atomPc' = [atomPc EXCEPT ![t] = "idle"]
                          /\ atomCall' = [atomCall EXCEPT ![t] = NoCall]
                          /\ atomFetched' = [atomFetched EXCEPT ![t] = 0]
                     ELSE /\ atomHist' = [atomHist EXCEPT !.retries = @ + 1]
                          /\ atomPc' = [atomPc EXCEPT ![t] = "load"]
                          /\ UNCHANGED <<atomRet, atomCall, atomFetched>>
            IN done(compare_exchange(atomValue, atomFetched[t],
                                     apply(atomCall[t].f, atomFetched[t])))
    /\ UNCHANGED nonAtom

AtomNext ==
    \/ \E t \in Threads, f \in UpdateFns, so, fo \in Orderings : AtomUpdateCall(t, f, so, fo)
    \/ \E t \in Threads : AtomUpdateLoad(t)
    \/ \E t \in Threads : AtomUpdateCas(t)

(***************************************************************************)
(* 4.B Size-class allocator (src/src/alloc/raw.rs)                         *)
(***************************************************************************)
MIN_SIZE_CLASS == 16
MAX_SIZE_CLASS == 2048
NUM_SIZE_CLASSES == 8

Max2(a, b) == IF a >= b THEN a ELSE b
Min2(a, b) == IF a <= b THEN a ELSE b

RECURSIVE PowerOfTwoFrom(_, _)
PowerOfTwoFrom(p, n) == IF p >= n THEN p ELSE PowerOfTwoFrom(2 * p, n)
next_power_of_two(n) == PowerOfTwoFrom(1, n)

RECURSIVE ilog2(_)
ilog2(n) == IF n <= 1 THEN 0 ELSE 1 + ilog2(n \div 2)

\* class_for_size: <<size class index, raw size>>, or <<-1, 0>> for None
class_for_size(size) ==
    IF size > MAX_SIZE_CLASS THEN <<-1, 0>>
    ELSE LET rounded_size == Max2(next_power_of_two(size), MIN_SIZE_CLASS)
         IN <<ilog2(rounded_size \div MIN_SIZE_CLASS), rounded_size>>

\* Heap addresses are <<page, offset>>; the null pointer is <<0, 0>>.
NullPtr == <<0, 0>>
ByteAdd(addr, n) == <<addr[1] + (addr[2] + n) \div PAGE_SIZE, (addr[2] + n) % PAGE_SIZE>>

\* FixedSizeAllocator::new
NewFixedSizeAllocator == [free_list |-> <<>>, fresh_head |-> NullPtr]

\* an allocate that asks for a page only while fresh_head is null
allocate_null_only(fsa, ptr, freed, size) ==
    IF fsa.free_list # <<>>
    THEN [res |-> "Ok", addr |-> Head(fsa.free_list),
          fsa |-> [fsa EXCEPT !.free_list = Tail(@)], next |-> ptr]
    ELSE IF fsa.fresh_head = NullPtr
    THEN LET a == alloc_pages(ptr, freed, 1) IN
         IF a.res # "Ok"
         THEN [res |-> a.res, addr |-> NullPtr, fsa |-> fsa, next |-> a.next]
         ELSE [res |-> "Ok", addr |-> <<a.ptr, 0>>,
               fsa |-> [fsa EXCEPT !.fresh_head = ByteAdd(<<a.ptr, 0>>, size)], next |-> a.next]
    ELSE [res |-> "Ok", addr |-> fsa.fresh_head,
          fsa |-> [fsa EXCEPT !.fresh_head = ByteAdd(@, size)], next |-> ptr]

\* FixedSizeAllocator::allocate: the freed block on top of the list, else the
\* next fresh block, taking a new page when fresh_head is page-aligned.
allocate(fsa, ptr, freed, size) ==
    IF fsa.free_list # <<>>
    THEN [res |-> "Ok", addr |-> Head(fsa.free_list),
          fsa |-> [fsa EXCEPT !.free_list = Tail(@)], next |-> ptr]
    ELSE IF fsa.fresh_head[2] = 0
    THEN LET a == alloc_pages(ptr, freed, 1) IN
         IF a.res # "Ok"
         THEN [res |-> a.res, addr |-> NullPtr, fsa |-> fsa, next |-> a.next]
         ELSE [res |-> "Ok", addr |-> <<a.ptr, 0>>,
               fsa |-> [fsa EXCEPT !.fresh_head = ByteAdd(<<a.ptr, 0>>, size)], next |-> a.next]
    ELSE [res |-> "Ok", addr |-> fsa.fresh_head,
          fsa |-> [fsa EXCEPT !.fresh_head = ByteAdd(@, size)], next |-> ptr]

\* A deallocate that queues the block behind the blocks freed before it.
deallocate_fifo(fsa, addr) == [fsa EXCEPT !.free_list = @ \o <<addr>>]

\* FixedSizeAllocator::deallocate: push the block on the free list.
deallocate(fsa, addr) == [fsa EXCEPT !.free_list = <<addr>> \o @]

\* KAllocator::allocate_inner; the class lock is free on a single hart.
allocate_inner(cls, ptr, freed, layout_size, layout_align) ==
    IF layout_size = 0
    THEN [res |-> "Ok", addr |-> <<0, layout_align>>, cls |-> cls, next |-> ptr]
    ELSE IF layout_align > PAGE_SIZE
    THEN [res |-> "panic", addr |-> NullPtr, cls |-> cls, next |-> ptr]
    ELSE LET size == Max2(layout_size, layout_align)
             paged(a) == [res |-> a.res, addr |-> <<a.ptr, 0>>, cls |-> cls, next |-> a.next]
             classed(c, r) == [res |-> r.res, addr |-> r.addr,
                               cls |-> [cls EXCEPT ![c[1]] = r.fsa], next |-> r.next]
             sized(c) == IF c[1] = -1
                         THEN paged(alloc_pages(ptr, freed, DivCeil(size, PAGE_SIZE)))
                         ELSE classed(c, allocate(cls[c[1]], ptr, freed, c[2]))
         IN sized(class_for_size(size))

\* KAllocator::deallocate_inner
deallocate_inner(cls, addr, layout_size, layout_align) ==
    IF layout_size = 0 THEN [res |-> "Ok", cls |-> cls]
    ELSE LET c == class_for_size(Max2(layout_size, layout_align)) IN
         IF c[1] = -1 THEN [res |-> "panic", cls |-> cls]
         ELSE [res |-> "Ok", cls |-> [cls EXCEPT ![c[1]] = deallocate(@, addr)]]

\* Layouts <<size, align>> the kernel asks the allocator for: a zero-sized
\* type, the 16- and 32-byte classes, and a size above MAX_SIZE_CLASS.
HeapLayouts == { <<0, 4>>, <<12, 4>>, <<16, 8>>, <<24, 8>>, <<MAX_SIZE_CLASS + 1, 4>> }
\* Layouts of two size classes: 32-byte blocks, and the largest class, whose
\* blocks come two to a page.
ClassLayouts == { <<24, 8>>, <<MAX_SIZE_CLASS, 8>> }

HeapInit ==
    /\ heap = {}
    /\ freedOrder = [c \in 0 .. (NUM_SIZE_CLASSES - 1) |-> <<>>]

\* GlobalAlloc::alloc: allocate_inner, a null pointer on OutOfMemory; at most
\* `most` blocks are in use at a time.
KAllocUpTo(layout, most) ==
    /\ panicked = "none"
    /\ Cardinality(heap) < most
    /\ LET c == class_for_size(Max2(layout[1], layout[2]))[1]
           got(r) ==
               /\ panicked' = IF r.res = "panic" THEN "allocate_inner panicked" ELSE panicked
               /\ classes' = r.cls
               /\ NEXT_PTR' = r.next
               /\ heap' = IF r.res = "Ok"
                           THEN heap \cup {[addr |-> r.addr, layout |-> layout,
                                             reused |-> /\ layout[1] # 0
                                                        /\ c # -1
                                                        /\ \E i \in DOMAIN freedOrder[c] :
                                                             freedOrder[c][i] = r.addr]}
                           ELSE heap
               /\ freedOrder' = IF r.res = "Ok" /\ layout[1] # 0 /\ c # -1
                                 THEN [freedOrder EXCEPT
                                         ![c] = SelectSeq(@, LAMBDA a : a # r.addr)]
                                 ELSE freedOrder
       IN got(allocate_inner(classes, NEXT_PTR, FREED_PAGES, layout[1], layout[2]))
    /\ UNCHANGED <<debug_assertions, FreeRamEnd, schedVars, FREED_PAGES, live, allocPc, allocHead, allocN,
                   allocCalls, frame, descs, closed, lastRead, mmaps, filled, guardVars, rcVars,
                   onceVars, spinVars, lazyVars, moreVars, ctxVars>>

KAlloc(layout) == KAllocUpTo(layout, MaxBlocks)

\* GlobalAlloc::dealloc of a block alloc returned, with the layout it was
\* asked for.
KDealloc(block) ==
    /\ panicked = "none"
    /\ block \in heap
    /\ LET c == class_for_size(Max2(block.layout[1], block.layout[2]))[1]
           given(r) ==
               /\ panicked' = IF r.res = "panic"
                              THEN "not yet implemented: Free an mmap-backed allocation"
                              ELSE panicked
               /\ classes' = r.cls
               /\ freedOrder' = IF r.res = "Ok" /\ block.layout[1] # 0
                                 THEN [freedOrder EXCEPT ![c] = <<block.addr>> \o @]
                                 ELSE freedOrder
       IN given(deallocate_inner(classes, block.addr, block.layout[1], block.layout[2]))
    /\ heap' = heap \ {block}
    /\ UNCHANGED <<debug_assertions, FreeRamEnd, schedVars, pageVars, frame, descs, closed, lastRead, mmaps,
                   filled, guardVars, rcVars, onceVars, spinVars, lazyVars, moreVars, ctxVars>>

(***************************************************************************)
(* 4.J Ext2 (src/src/ext2.rs)                                              *)
(***************************************************************************)
\* The disk image: the root directory holds the regular file "h" (the three
\* bytes "hi\n") and the empty directory "d".
ROOT_INODE == 2
FileInode == ROOT_INODE + 10
DirInode == FileInode + 1
HelloSize == Len(<<"h", "i", "LF">>)
DIR_SIZE == 1024
BLOCK_SIZE == 1024
SECTOR_LEN == 512
NUM_DIRECT_POINTERS == 12
KBYTEBUF_ALIGN == 8

Disk ==
    [n \in {ROOT_INODE, FileInode, DirInode} |->
        IF n = ROOT_INODE
        THEN [type |-> "Directory", size |-> DIR_SIZE,
              entries |-> { <<<<"h">>, FileInode>>, <<<<"d">>, DirInode>> }]
        ELSE IF n = FileInode
        THEN [type |-> "RegularFile", size |-> HelloSize, entries |-> {}]
        ELSE [type |-> "Directory", size |-> DIR_SIZE, entries |-> {}]]

\* DirectoryEntryIter::find_for_name on the entries of one directory block:
\* the inode number, or 0 for None
find_for_name(entries, name) ==
    IF \E e \in entries : e[1] = name
    THEN (CHOOSE e \in entries : e[1] = name)[2]
    ELSE 0

\* lookup_path: for each part, read_dir (which allocates and frees one block
\* buffer and hits todo!() unless the inode's size is 1024) and
\* find_for_name.  The inode number (0 for None), the allocator state after.
RECURSIVE lookup_path(_, _, _, _, _)
lookup_path(inode_num, path_parts, cls, ptr, freed) ==
    IF path_parts = <<>>
    THEN [res |-> "Some", inode_num |-> inode_num, cls |-> cls, next |-> ptr]
    ELSE IF Disk[inode_num].size # DIR_SIZE
    THEN [res |-> "todo", inode_num |-> 0, cls |-> cls, next |-> ptr]
    ELSE LET searched(found, cls2, next) ==
                 IF found = 0
                 THEN [res |-> "None", inode_num |-> 0, cls |-> cls2, next |-> next]
                 ELSE lookup_path(found, Tail(path_parts), cls2, next, freed)
             read_dir(buf) ==
                 IF buf.res # "Ok"
                 THEN [res |-> "Out of memory", inode_num |-> 0, cls |-> buf.cls,
                       next |-> buf.next]
                 ELSE searched(find_for_name(Disk[inode_num].entries, Head(path_parts)),
                               deallocate_inner(buf.cls, buf.addr, BLOCK_SIZE,
                                                KBYTEBUF_ALIGN).cls,
                               buf.next)
         IN read_dir(allocate_inner(cls, ptr, freed, BLOCK_SIZE, KBYTEBUF_ALIGN))

\* read_inode_sector: the assertion on the inode type, the direct-pointer
\* bound; the device is healthy.
read_inode_sector(inode_num, sector_num) ==
    IF Disk[inode_num].type # "RegularFile" THEN "panic"
    ELSE IF sector_num \div (BLOCK_SIZE \div SECTOR_LEN) >= NUM_DIRECT_POINTERS THEN "Unsupported"
    ELSE "Ok"

\* The loop of read_file_from_offset, on lengths: buf_len is what is left of
\* the (already clamped) buffer.
RECURSIVE read_loop(_, _, _, _, _)
read_loop(inode_num, offset, buf_len, sector_num, write_len) ==
    IF offset >= Disk[inode_num].size THEN [res |-> "Ok", len |-> write_len]
    ELSE LET r == read_inode_sector(inode_num, sector_num) IN
         IF r # "Ok" THEN [res |-> r, len |-> 0]
         ELSE LET this_write_len == Min2(buf_len, SECTOR_LEN) IN
              read_loop(inode_num, offset + this_write_len, buf_len - this_write_len,
                        sector_num + 1, write_len + this_write_len)

\* read_file_from_offset: file_size - offset underflows when the offset is
\* past the end: a panic with overflow checks, else the wrapped difference
\* exceeds every buffer length and nothing is clamped.
read_file_from_offset(dbg, inode_num, offset, buf_len) ==
    LET file_size == Disk[inode_num].size IN
    IF offset > file_size /\ dbg THEN [res |-> "panic", len |-> 0]
    ELSE LET clamped == IF offset <= file_size /\ buf_len > file_size - offset
                        THEN file_size - offset ELSE buf_len
         IN read_loop(inode_num, offset, clamped, offset \div SECTOR_LEN, 0)


(***************************************************************************)
(* 4.J2 Ext2 on a disk image (src/src/ext2.rs)                             *)
(***************************************************************************)
\* A version-1 ext2 image with 1024-byte blocks and two block groups, as
\* mke2fs lays it out: boot block 0 (zeroed), superblock in block 1, the
\* block group descriptor table in block 2 with one 32-byte record per
\* group, and per group an inode table of two blocks.
\*
\*   /h      inode 12   regular, 3 bytes        block 40
\*   /e      inode 13   directory               block 31
\*   /e/f    inode 14   regular, 512 bytes      block 42
\*   /m      inode 15   regular, 1030 bytes     blocks 41, 43
\*   /d      inode 17   directory (group 1)     block 32
\*   /d/g    inode 18   regular, 5 bytes        block 44
Superblock ==
    [block_size_raw |-> 0, inode_size |-> 128, inodes_per_group |-> 16,
     blocks_per_group |-> 64, block_count |-> 128, inode_count |-> 32]

\* Superblock::block_size, sectors_per_block, inodes_per_block, num_block_groups
block_size(sb) == BLOCK_SIZE * 2 ^ sb.block_size_raw
sectors_per_block(sb) == block_size(sb) \div SECTOR_LEN
inodes_per_block(sb) == block_size(sb) \div sb.inode_size
num_block_groups(sb) == DivCeil(sb.block_count, sb.blocks_per_group)

\* inode_table_addr of each group's descriptor
InodeTableAddr == <<5, 69>>
\* size_of::<BlockGroupDescriptor>() of the struct in the source: three u32
\* and four u16
BGD_STRUCT_SIZE == 3 * 4 + 4 * 2
\* the size of a descriptor on disk
BGD_DISK_SIZE == 32
\* offset_of!(BlockGroupDescriptor, inode_table_addr)
BGD_INODE_TABLE_OFFSET == 8

\* The u32 at a byte offset of the descriptor table: the inode table address
\* at offset 8 of each 32-byte record; the bitmaps and counts of a record
\* are never looked at (written as 1), its last 12 bytes are reserved and zero.
BgdtWord(off) ==
    LET g == off \div BGD_DISK_SIZE
        field == off % BGD_DISK_SIZE
    IN IF g >= Len(InodeTableAddr) THEN 0
       ELSE IF field = BGD_INODE_TABLE_OFFSET THEN InodeTableAddr[g + 1]
       ELSE IF field < BGD_INODE_TABLE_OFFSET + 12 THEN 1
       ELSE 0

NoPointers == [i \in 1 .. NUM_DIRECT_POINTERS |-> 0]
ZeroInode == [type |-> 0, size_lower |-> 0, direct_block_pointers |-> NoPointers]
Pointers(blocks) == [i \in 1 .. NUM_DIRECT_POINTERS |-> IF i <= Len(blocks) THEN blocks[i] ELSE 0]
Regular(size, blocks) ==
    [type |-> 8, size_lower |-> size, direct_block_pointers |-> Pointers(blocks)]
Directory(block) ==
    [type |-> 4, size_lower |-> DIR_SIZE, direct_block_pointers |-> Pointers(<<block>>)]

\* the inodes in use; every other slot of the inode tables is zeroed
Inodes ==
    [n \in 1 .. Superblock.inode_count |->
        CASE n = ROOT_INODE -> Directory(30)
          [] n = 12 -> Regular(3, <<40>>)
          [] n = 13 -> Directory(31)
          [] n = 14 -> Regular(512, <<42>>)
          [] n = 15 -> Regular(1030, <<41, 43>>)
          [] n = 17 -> Directory(32)
          [] n = 18 -> Regular(5, <<44>>)
          [] OTHER -> ZeroInode]

\* directory blocks: entries <<inode_num, entry_size, name>>; the last entry
\* of a block reaches to its end
DirBlocks ==
    [b \in {30, 31, 32} |->
        CASE b = 30 -> << <<ROOT_INODE, 12, ".">>, <<ROOT_INODE, 12, "..">>, <<12, 12, "h">>,
                          <<13, 12, "e">>, <<15, 12, "m">>, <<17, 964, "d">> >>
          [] b = 31 -> << <<13, 12, ".">>, <<ROOT_INODE, 12, "..">>, <<14, 1000, "f">> >>
          [] b = 32 -> << <<17, 12, ".">>, <<ROOT_INODE, 12, "..">>, <<18, 1000, "g">> >>]

\* byte i (from 0) of the file with inode n
FileByte(n, i) == (n * 31 + i * 7) % 251
FileContents(n) == [i \in 1 .. Inodes[n].size_lower |-> FileByte(n, i - 1)]

\* The bytes of a sector of the image, for the sectors that hold file data;
\* the rest of a file's last block is zero.
SectorOwners(sector) ==
    {x \in (DOMAIN Inodes) \X (1 .. NUM_DIRECT_POINTERS) :
        /\ Inodes[x[1]].type = 8
        /\ Inodes[x[1]].direct_block_pointers[x[2]] # 0
        /\ Inodes[x[1]].direct_block_pointers[x[2]] = sector \div sectors_per_block(Superblock)}
SectorBytes(sector) ==
    LET spb == sectors_per_block(Superblock)
        bytes(owners) ==
            IF owners = {} THEN [k \in 0 .. SECTOR_LEN - 1 |-> 0]
            ELSE LET x == CHOOSE y \in owners : TRUE
                     first == ((x[2] - 1) * spb + (sector % spb)) * SECTOR_LEN
                     size == Inodes[x[1]].size_lower
                 IN [k \in 0 .. SECTOR_LEN - 1 |->
                        IF first + k < size THEN FileByte(x[1], first + k) ELSE 0]
    IN bytes(SectorOwners(sector))

\* The inode record at slot idx of a sector: a slot of an inode table, or
\* zeroes (the sectors of the boot block hold nothing).
InodeAt(sector, idx) ==
    LET spb == sectors_per_block(Superblock)
        per_sector == SECTOR_LEN \div Superblock.inode_size
        table_sectors == (Superblock.inodes_per_group \div inodes_per_block(Superblock)) * spb
        groups == {g \in 1 .. Len(InodeTableAddr) :
                     /\ InodeTableAddr[g] * spb <= sector
                     /\ sector < InodeTableAddr[g] * spb + table_sectors}
    IN IF groups = {} THEN ZeroInode
       ELSE LET g == CHOOSE x \in groups : TRUE
            IN Inodes[(g - 1) * Superblock.inodes_per_group
                      + (sector - InodeTableAddr[g] * spb) * per_sector + idx + 1]

\* A descriptor read at the stride of the on-disk record.
block_group_descriptor_by_record(group_num) ==
    IF group_num >= num_block_groups(Superblock) THEN [res |-> "panic", inode_table_addr |-> 0]
    ELSE [res |-> "Ok",
          inode_table_addr |-> BgdtWord(group_num * BGD_DISK_SIZE + BGD_INODE_TABLE_OFFSET)]

\* Ext2::block_group_descriptor: the assertion on the group number, the
\* sector 2 + block_size / 512 + (group_num * DESCS_PER_SECTOR) / 512 and the
\* struct at index group_num % DESCS_PER_SECTOR of it, DESCS_PER_SECTOR being
\* 512 / size_of::<BlockGroupDescriptor>().
block_group_descriptor(group_num) ==
    LET DESCS_PER_SECTOR == SECTOR_LEN \div BGD_STRUCT_SIZE
        sector_in_table == (group_num * DESCS_PER_SECTOR) \div SECTOR_LEN
        byte == sector_in_table * SECTOR_LEN
                + ((group_num % DESCS_PER_SECTOR) * BGD_STRUCT_SIZE)
    IN IF group_num >= num_block_groups(Superblock)
       THEN [res |-> "panic", inode_table_addr |-> 0]
       ELSE [res |-> "Ok", inode_table_addr |-> BgdtWord(byte + BGD_INODE_TABLE_OFFSET)]

\* Ext2::inode
inode(inode_num) ==
    LET sb == Superblock
        n1 == IF inode_num = 0 THEN 0 ELSE inode_num - 1
        group == block_group_descriptor(n1 \div sb.inodes_per_group)
        inode_block == group.inode_table_addr
                       + ((n1 % sb.inodes_per_group) \div inodes_per_block(sb))
        inodes_per_sector == SECTOR_LEN \div sb.inode_size
        inode_sector == inode_block * sectors_per_block(sb)
                        + ((n1 % inodes_per_block(sb)) \div inodes_per_sector)
    IN IF group.res # "Ok" THEN [res |-> "panic", inode |-> ZeroInode]
       ELSE [res |-> "Ok", inode |-> InodeAt(inode_sector, n1 % inodes_per_sector)]

\* DirectoryEntryIter::next and find_for_name over the entries of a block,
\* idx being the byte offset of entry i: the inode number, 0 for None.
RECURSIVE DirectoryEntryIter_find_for_name(_, _, _, _)
DirectoryEntryIter_find_for_name(buf, i, idx, name) ==
    IF idx >= block_size(Superblock) \/ i > Len(buf) THEN 0
    ELSE IF buf[i][3] = name THEN buf[i][1]
    ELSE DirectoryEntryIter_find_for_name(buf, i + 1, idx + buf[i][2], name)

\* Ext2::read_dir and Ext2::lookup_path: "Some" with the inode number,
\* "None", or a panic.
RECURSIVE Ext2_lookup_path(_, _)
Ext2_lookup_path(inode_num, path_parts) ==
    IF path_parts = <<>> THEN [res |-> "Some", inode_num |-> inode_num]
    ELSE LET dir == inode(inode_num) IN
         IF dir.res # "Ok" THEN [res |-> "panic", inode_num |-> 0]
         ELSE IF dir.inode.size_lower # DIR_SIZE THEN [res |-> "todo", inode_num |-> 0]
         ELSE LET block == dir.inode.direct_block_pointers[1]
                  buf == IF block \in DOMAIN DirBlocks THEN DirBlocks[block] ELSE <<>>
                  found == DirectoryEntryIter_find_for_name(buf, 1, 0, Head(path_parts))
              IN IF found = 0 THEN [res |-> "None", inode_num |-> 0]
                 ELSE Ext2_lookup_path(found, Tail(path_parts))

\* Ext2::read_inode_sector: the sector of the image that is read
Ext2_read_inode_sector(inode_num, sector_num) ==
    LET sb == Superblock
        i == inode(inode_num)
        block_idx == sector_num \div sectors_per_block(sb)
    IN IF i.res # "Ok" \/ i.inode.type # 8 THEN [res |-> "panic", sector |-> 0]
       ELSE IF block_idx >= NUM_DIRECT_POINTERS THEN [res |-> "Unsupported", sector |-> 0]
       ELSE [res |-> "Ok",
             sector |-> i.inode.direct_block_pointers[block_idx + 1] * sectors_per_block(sb)
                        + (sector_num % sectors_per_block(sb))]

\* a byte of the caller's buffer that nothing was copied to
Untouched == -1

\* The loop of read_file_from_offset: buf is the caller's whole buffer, at is
\* where the slice still to fill begins and left is its length.
RECURSIVE Ext2_read_loop(_, _, _, _, _, _, _, _)
Ext2_read_loop(inode_num, file_size, offset, buf, at, left, sector_num, write_len) ==
    IF offset >= file_size THEN [res |-> "Ok", len |-> write_len, buf |-> buf]
    ELSE LET copied(r) ==
                 IF r.res # "Ok" THEN [res |-> r.res, len |-> 0, buf |-> buf]
                 ELSE LET this_write_len == Min2(left, SECTOR_LEN)
                          copy_from_sector(sector_buf) ==
                              [j \in 1 .. Len(buf) |->
                                  IF at < j /\ j <= at + this_write_len
                                  THEN sector_buf[j - at - 1] ELSE buf[j]]
                      IN Ext2_read_loop(inode_num, file_size, offset + this_write_len,
                            copy_from_sector(SectorBytes(r.sector)),
                            at + this_write_len, left - this_write_len,
                            sector_num + 1, write_len + this_write_len)
         IN copied(Ext2_read_inode_sector(inode_num, sector_num))

\* Ext2::read_file_from_offset on a buffer of buf_len untouched bytes.
\* file_size - offset underflows when the offset is past the end: a panic
\* with overflow checks, else nothing is clamped.
Ext2_read_file_from_offset(dbg, inode_num, offset, buf_len) ==
    LET i == inode(inode_num)
        buf == [j \in 1 .. buf_len |-> Untouched]
        file_size == i.inode.size_lower
    IN IF i.res # "Ok" \/ (offset > file_size /\ dbg) THEN [res |-> "panic", len |-> 0, buf |-> buf]
       ELSE Ext2_read_loop(inode_num, file_size, offset, buf, 0,
                           IF offset <= file_size /\ buf_len > file_size - offset
                           THEN file_size - offset ELSE buf_len,
                           offset \div SECTOR_LEN, 0)

\* The inode a path names on the image: from the root, the entry of each
\* directory on the way whose name is the component; 0 when there is none.
RECURSIVE Traverse(_, _)
Traverse(n, path_parts) ==
    IF path_parts = <<>> THEN n
    ELSE LET entries == IF Inodes[n].type = 4
                        THEN DirBlocks[Inodes[n].direct_block_pointers[1]] ELSE <<>>
             hits == {k \in 1 .. Len(entries) : entries[k][3] = Head(path_parts)}
         IN IF hits = {} THEN 0
            ELSE Traverse(entries[CHOOSE k \in hits : TRUE][1], Tail(path_parts))

\* The calls made on the image.
ReadInodes == {12, 14, 15, 18}
ReadOffsets == {0, 1, SECTOR_LEN}
BufLens == {0, 3, 5, SECTOR_LEN, SECTOR_LEN + 1, 1030, 1031, 2 * BLOCK_SIZE}
LookupPaths ==
    { <<>>, <<"h">>, <<"e">>, <<"m">>, <<"d">>, <<"x">>, <<"e", "f">>, <<"e", "x">>,
      <<"e", "..", "h">>, <<"d", "g">>, <<"d", "x">>, <<"h", "x">> }
NoExt2Call == [op |-> "none"]

\* Ext2::new on the image
Ext2Init ==
    /\ ext2Call = NoExt2Call
    /\ ext2Out = NoExt2Call

Ext2Quiet == Ext2Init

Ext2Read(inode_num, offset, buf_len) ==
    /\ ext2Call = NoExt2Call
    /\ ext2Call' = [op |-> "read", inode_num |-> inode_num, offset |-> offset,
                    buf_len |-> buf_len]
    /\ ext2Out' = Ext2_read_file_from_offset(debug_assertions, inode_num, offset, buf_len)
    /\ UNCHANGED nonExt2

Ext2Lookup(path_parts) ==
    /\ ext2Call = NoExt2Call
    /\ ext2Call' = [op |-> "lookup", path_parts |-> path_parts]
    /\ ext2Out' = Ext2_lookup_path(ROOT_INODE, path_parts)
    /\ UNCHANGED nonExt2

\* Ext2::block_group_descriptor for a group of the image
Ext2Bgd(group_num) ==
    /\ ext2Call = NoExt2Call
    /\ ext2Call' = [op |-> "bgd", group_num |-> group_num]
    /\ ext2Out' = block_group_descriptor(group_num)
    /\ UNCHANGED nonExt2

\* The caller is done with the result.
Ext2Return ==
    /\ ext2Call # NoExt2Call
    /\ ext2Call' = NoExt2Call
    /\ ext2Out' = NoExt2Call
    /\ UNCHANGED nonExt2

Ext2Next ==
    \/ Ext2Return
    \/ \E n \in ReadInodes, offset \in ReadOffsets, len \in BufLens : Ext2Read(n, offset, len)
    \/ \E path_parts \in LookupPaths : Ext2Lookup(path_parts)
    \/ \E group_num \in 0 .. num_block_groups(Superblock) - 1 : Ext2Bgd(group_num)

\* Superblocks Ext2::new may find on a disk: version-1 (or, to be refused,
\* version-0) images of two block groups, with 1024- or 2048-byte blocks, an
\* inode size that is a power of two from 128 up to 1024 bytes, and inode
\* tables of one or two blocks per group.
InodeSizes == {128, 256, 512, 1024}
Superblocks ==
    { [block_size_raw |-> raw, inode_size |-> size,
       inodes_per_group |-> k * ((BLOCK_SIZE * 2 ^ raw) \div size),
       blocks_per_group |-> 64, block_count |-> 128,
       inode_count |-> 2 * k * ((BLOCK_SIZE * 2 ^ raw) \div size),
       major_version |-> v, required_features |-> {"DirectoryEntryType"},
       read_only_features |-> {"SparseGroupDescriptors"}] :
      raw \in 0 .. 1, size \in InodeSizes, k \in 1 .. 2, v \in 0 .. 1 }

\* Superblock::check_validity
check_validity(sb) ==
    IF sb.inodes_per_group = 0 \/ sb.blocks_per_group = 0 THEN "Io"
    ELSE IF DivCeil(sb.inode_count, sb.inodes_per_group)
            # DivCeil(sb.block_count, sb.blocks_per_group) THEN "Io"
    ELSE IF sb.major_version # 1 THEN "Unsupported"
    ELSE IF sb.inode_size < 128 THEN "Unsupported"
    ELSE IF ~(sb.required_features \subseteq {"DirectoryEntryType"}) THEN "Unsupported"
    ELSE IF ~(sb.read_only_features \subseteq {"SparseGroupDescriptors", "FileSize64Bit"})
    THEN "Unsupported"
    ELSE "Ok"

\* the inode table address in the descriptor of a group: the table sits five
\* blocks into its group
InodeTableOf(sb, group_num) == 5 + group_num * sb.blocks_per_group

NoLocation == [res |-> "panic", group_num |-> 0, inode_table_addr |-> 0, sector |-> 0, byte |-> 0]

\* Ext2::inode on a disk with superblock sb: the group whose descriptor it
\* asks for, the sector it reads and the byte of that sector at which it
\* takes the inode; a division by zero panics.
Ext2_inode(sb, inode_num) ==
    LET n1 == IF inode_num = 0 THEN 0 ELSE inode_num - 1
        group_num == n1 \div sb.inodes_per_group
        inodes_per_sector == SECTOR_LEN \div sb.inode_size
        inode_block == InodeTableOf(sb, group_num)
                       + ((n1 % sb.inodes_per_group) \div inodes_per_block(sb))
    IN IF inodes_per_block(sb) = 0 \/ inodes_per_sector = 0 THEN NoLocation
       ELSE [res |-> "Ok", group_num |-> group_num,
             inode_table_addr |-> InodeTableOf(sb, group_num),
             sector |-> inode_block * (2 * 2 ^ sb.block_size_raw)
                        + ((n1 % inodes_per_block(sb)) \div inodes_per_sector),
             byte |-> (n1 % inodes_per_sector) * sb.inode_size]

\* Ext2::new on a disk with superblock sb, then Ext2::inode.
Ext2Inode(sb, inode_num) ==
    /\ ext2Call = NoExt2Call
    /\ ext2Call' = [op |-> "inode", sb |-> sb, inode_num |-> inode_num]
    /\ ext2Out' = IF check_validity(sb) # "Ok"
                  THEN [res |-> "Superblock has invalid data"]
                  ELSE Ext2_inode(sb, inode_num)
    /\ UNCHANGED nonExt2

Ext2InodeNext ==
    \/ Ext2Return
    \/ \E sb \in Superblocks : \E n \in 1 .. sb.inode_count : Ext2Inode(sb, n)

(***************************************************************************)
(* 4.K Virtio devices (src/src/virtio.rs, src/src/virtio/reg.rs)           *)
(***************************************************************************)
QUEUE_SIZE == 16
BLOCK_SECTOR_LEN == SECTOR_LEN
U16_RANGE == 65536
VIRTIO_MAGIC == 1953655158           \* 0x74726976
BLOCK_REQUEST_DATA_OFFSET == 16      \* offset_of!(BlockRequest, data): u32, u32, u64
DeviceKinds == {"block", "random"}
\* DeviceFeatureFlags the device may advertise
FeatureSets == {{}, {"ReadOnly"}}
\* the device id each driver expects
ExpectedDeviceId(kind) == IF kind = "block" THEN 2 ELSE 4

\* sectors the kernel may ask for: those of the disk and the first one past its end
VioSectors == 0 .. DiskSectors
DataTokens == {"d1", "d2"}

WriteReg(reg, val) == [k |-> "w", reg |-> reg, val |-> val]
ReadReg(reg) == [k |-> "r", reg |-> reg]

\* Virtio::initialize: its register accesses in program order
initialize ==
    << WriteReg("DeviceStatus", {}),
       WriteReg("DeviceStatus", {"Acknowledge"}),
       WriteReg("DeviceStatus", {"Acknowledge", "Driver"}),
       ReadReg("Magic"),
       ReadReg("Version"),
       ReadReg("DeviceFeatures"),
       WriteReg("DeviceStatus", {"Acknowledge", "Driver", "FeaturesOk"}),
       ReadReg("DeviceStatus"),
       WriteReg("DeviceStatus", {"Acknowledge", "Driver", "FeaturesOk", "DriverOk"}),
       ReadReg("DeviceStatus") >>

\* Virtio::initialize_queue: its register accesses in program order
initialize_queue(queue_num) ==
    << WriteReg("QueueSelect", queue_num),
       ReadReg("QueueReady"),
       WriteReg("QueueSize", QUEUE_SIZE),
       WriteReg("QueuePfn", "queue"),
       WriteReg("QueueReady", 1) >>

\* a variant that brings the queue up before the device goes live
initialize_queue_first ==
    SubSeq(initialize, 1, 8) \o initialize_queue(0) \o SubSeq(initialize, 9, 10)
    \o << ReadReg("DeviceId") >>

\* VirtioBlock::init_kernel_address and VirtioRandom::init_kernel_address:
\* init_for_pointers runs initialize, then the device id is checked and
\* queue 0 is set up
init_kernel_address == initialize \o << ReadReg("DeviceId") >> \o initialize_queue(0)

\* what the device answers to a register read
DeviceRead(reg) ==
    CASE reg = "Magic" -> VIRTIO_MAGIC
      [] reg = "Version" -> 1
      [] reg = "DeviceId" -> ExpectedDeviceId(vioDev.kind)
      [] reg = "DeviceFeatures" -> vioDev.features
      [] reg = "DeviceStatus" -> vioStatus
      [] reg = "QueueReady" -> IF vioQueue.ready THEN 1 ELSE 0

\* the assertion the driver makes on the value it read at step pc
AssertHolds(pc, value) ==
    LET reg == init_kernel_address[pc].reg IN
    CASE reg = "Magic" -> value = VIRTIO_MAGIC
      [] reg = "Version" -> value = 1
      [] reg = "DeviceId" -> value = ExpectedDeviceId(vioDev.kind)
      [] reg = "DeviceFeatures" -> "ReadOnly" \notin value
      [] reg = "DeviceStatus" ->
           IF pc < Len(initialize)
           THEN "FeaturesOk" \in value
           ELSE "Failed" \notin value /\ "DeviceNeedsReset" \notin value
      [] reg = "QueueReady" -> value = 0

DefaultDescriptor == [address |-> "null", length |-> 0, flags |-> {}, next |-> 0]
DefaultUsedElement == [index |-> 0, length |-> 0]
\* VirtQueue::default()
DefaultVirtQueue ==
    [ descriptor |-> [i \in 0 .. QUEUE_SIZE - 1 |-> DefaultDescriptor],
      available |-> [index |-> 0, ring |-> [i \in 0 .. QUEUE_SIZE - 1 |-> 0]],
      used |-> [index |-> 0, ring |-> [i \in 0 .. QUEUE_SIZE - 1 |-> DefaultUsedElement]],
      ready |-> FALSE ]

\* before init_kernel_address has allocated the queue's page
NoQueue == [ready |-> FALSE]
NoRequest == [ty |-> "none"]
NoVioCall == [op |-> "none"]
\* the driver outside initialisation: "idle", "waiting" for the device, or after a "panic"
DriverAt(at) == [at |-> at, step |-> 0]

\* the BlockRequest a write that forgot its payload would build
BlockRequestBlank(op, sector, data) ==
    [ty |-> IF op = "read" THEN "Read" ELSE "Write", sector |-> sector,
     data |-> "zeros", status |-> {}]

\* the BlockRequest built by read_sector and by write_sector
BlockRequestFor(op, sector, data) ==
    [ty |-> IF op = "read" THEN "Read" ELSE "Write", sector |-> sector,
     data |-> IF op = "read" THEN "zeros" ELSE data, status |-> {}]

\* do_request: the three chained descriptors
RequestDescriptors(ty) ==
    [i \in 0 .. QUEUE_SIZE - 1 |->
        CASE i = 0 -> [address |-> "header", length |-> BLOCK_REQUEST_DATA_OFFSET,
                       flags |-> {"Next"}, next |-> 1]
          [] i = 1 -> [address |-> "data", length |-> BLOCK_SECTOR_LEN,
                       flags |-> IF ty = "Read" THEN {"Next", "Write"} ELSE {"Next"},
                       next |-> 2]
          [] i = 2 -> [address |-> "status", length |-> 1, flags |-> {"Write"}, next |-> 0]
          [] OTHER -> vioQueue.descriptor[i]]

queue_busy(queue) == queue.available.index # queue.used.index

\* the slot an implementation following the device's write would read
used_slot_written(used_index) == ((used_index + U16_RANGE - 1) % U16_RANGE) % QUEUE_SIZE

\* run_descriptor: the slot of the used ring it reads once the queue is idle
used_slot_read(used_index) == used_index % QUEUE_SIZE

\* BlockRequestStatus::success
success(status) ==
    IF "IoError" \in status THEN "Err(Io)"
    ELSE IF "Unsupported" \in status THEN "Err(Unsupported)"
    ELSE "Ok"

VioInit ==
    /\ vioDev \in [kind : DeviceKinds, features : FeatureSets]
    /\ vioPc = [at |-> "init", step |-> 1]
    /\ vioLog = << >>
    /\ vioStatus = {}
    /\ vioQueue = NoQueue
    /\ vioDisk = [s \in 0 .. DiskSectors - 1 |-> "zeros"]
    /\ vioReq = NoRequest
    /\ vioArg = NoVioCall
    /\ vioOut = NoVioCall
    /\ vioHist = [requests |-> 0, wrote |-> DefaultUsedElement,
                  written |-> [s \in VioSectors |-> "none"]]

VioQuiet == VioInit /\ vioDev = [kind |-> "block", features |-> {}]

\* One register access of init_kernel_address.
VioInitStep ==
    /\ vioPc.at = "init"
    /\ LET ins == init_kernel_address[vioPc.step]
           last == vioPc.step = Len(init_kernel_address)
       IN IF ins.k = "w"
          THEN /\ vioLog' = Append(vioLog, ins)
               /\ vioStatus' = IF ins.reg = "DeviceStatus" THEN ins.val ELSE vioStatus
               /\ vioQueue' = IF ins.reg = "QueuePfn" THEN DefaultVirtQueue
                              ELSE IF ins.reg = "QueueReady"
                              THEN [vioQueue EXCEPT !.ready = TRUE]
                              ELSE vioQueue
               /\ vioPc' = IF last THEN DriverAt("idle") ELSE [vioPc EXCEPT !.step = @ + 1]
          ELSE /\ vioPc' = IF ~AssertHolds(vioPc.step, DeviceRead(ins.reg)) THEN DriverAt("panic")
                           ELSE IF last THEN DriverAt("idle")
                           ELSE [vioPc EXCEPT !.step = @ + 1]
               /\ UNCHANGED <<vioLog, vioStatus, vioQueue>>
    /\ UNCHANGED <<vioDev, vioDisk, vioReq, vioArg, vioOut, vioHist, nonVio>>

\* run_descriptor up to the fence: the store of descriptor_idx into the
\* available ring through the reference, the volatile read of available.index,
\* the volatile store of 0 into the ring slot of that index, and the volatile
\* store of the index plus one.
run_descriptor_submit(queue, descriptor_idx) ==
    LET first == [queue EXCEPT !.available.ring[queue.available.index % QUEUE_SIZE] =
                                    descriptor_idx]
        idx == first.available.index
    IN [first EXCEPT !.available.ring[idx % QUEUE_SIZE] = 0,
                     !.available.index = (idx + 1) % U16_RANGE]

\* read_sector / write_sector up to the notification in run_descriptor
VioSubmit(op, sector, data) ==
    /\ vioDev.kind = "block"
    /\ vioPc = DriverAt("idle")
    /\ vioHist.requests < MaxRequests
    /\ LET request == BlockRequestFor(op, sector, data)
       IN /\ vioReq' = request
          /\ vioQueue' = run_descriptor_submit(
                [vioQueue EXCEPT !.descriptor = RequestDescriptors(request.ty)], 0)
    /\ vioArg' = [op |-> op, sector |-> sector, data |-> data]
    /\ vioOut' = NoVioCall
    /\ vioLog' = Append(vioLog, WriteReg("QueueNotify", 0))
    /\ vioHist' = [vioHist EXCEPT !.requests = @ + 1]
    /\ vioPc' = DriverAt("waiting")
    /\ UNCHANGED <<vioDev, vioStatus, vioDisk, nonVio>>

RECURSIVE DescriptorChain(_, _, _)
DescriptorChain(descriptor, i, fuel) ==
    IF fuel = 0 THEN << >>
    ELSE << descriptor[i] >> \o
         (IF "Next" \in descriptor[i].flags
          THEN DescriptorChain(descriptor, descriptor[i].next, fuel - 1)
          ELSE << >>)

\* The block device serves the request at the head of the available ring.
VioDevice ==
    /\ vioPc = DriverAt("waiting")
    /\ "DriverOk" \in vioStatus
    /\ queue_busy(vioQueue)
    /\ LET slot == vioQueue.used.index % QUEUE_SIZE
           head == vioQueue.available.ring[slot]
           chain == DescriptorChain(vioQueue.descriptor, head, QUEUE_SIZE)
           payload == chain[2]
           in_range == vioReq.sector < DiskSectors
           readable == vioReq.ty = "Read" /\ in_range /\ "Write" \in payload.flags
           writable == vioReq.ty = "Write" /\ in_range /\ "Write" \notin payload.flags
           status == IF readable \/ writable THEN {} ELSE {"IoError"}
           element == [index |-> head, length |-> IF readable THEN payload.length + 1 ELSE 1]
       IN /\ Len(chain) = 3
          /\ vioReq' = [vioReq EXCEPT
                !.data = IF readable THEN vioDisk[vioReq.sector] ELSE @,
                !.status = status]
          /\ vioDisk' = IF writable THEN [vioDisk EXCEPT ![vioReq.sector] = vioReq.data]
                        ELSE vioDisk
          /\ vioQueue' = [vioQueue EXCEPT
                !.used.ring[slot] = element,
                !.used.index = (@ + 1) % U16_RANGE]
          /\ vioHist' = [vioHist EXCEPT !.wrote = element]
    /\ UNCHANGED <<vioDev, vioPc, vioLog, vioStatus, vioArg, vioOut, nonVio>>

\* run_descriptor leaves its busy loop; do_request returns; read_sector /
\* write_sector check the status byte and copy the data out.
VioComplete ==
    /\ vioPc = DriverAt("waiting")
    /\ ~queue_busy(vioQueue)
    /\ LET queue_elem == vioQueue.used.ring[used_slot_read(vioQueue.used.index)]
           res == success(vioReq.status)
       IN /\ vioOut' = [op |-> vioArg.op, sector |-> vioArg.sector, res |-> res,
                        buf |-> IF vioArg.op = "read" /\ res = "Ok"
                                THEN vioReq.data ELSE "stale",
                        used |-> queue_elem]
          /\ vioHist' = IF vioArg.op = "write"
                        THEN [vioHist EXCEPT !.written[vioArg.sector] =
                                 IF res = "Ok" THEN vioArg.data ELSE "none"]
                        ELSE vioHist
    /\ vioArg' = NoVioCall
    /\ vioReq' = NoRequest
    /\ vioPc' = DriverAt("idle")
    /\ UNCHANGED <<vioDev, vioLog, vioStatus, vioQueue, vioDisk, nonVio>>

VioNext ==
    \/ VioInitStep
    \/ \E sector \in VioSectors : VioSubmit("read", sector, "zeros")
    \/ \E sector \in VioSectors, data \in DataTokens : VioSubmit("write", sector, data)
    \/ VioDevice
    \/ VioComplete

\* DeviceStatus once Virtio::initialize has finished
DriverOkStatus == initialize[9].val
\* values of available.index (and of used.index, the queue being idle) that
\* run_descriptor may find: a fresh queue, the ends of the ring, the last u16
RingIndexes == {0, 1, QUEUE_SIZE - 1, QUEUE_SIZE, U16_RANGE - 1}
\* head indexes a caller may pass to run_descriptor
Heads == 0 .. QUEUE_SIZE - 1

\* A device that init_kernel_address has brought up and that has served i
\* requests whose descriptors held no device-writable bytes.
RunInit ==
    /\ vioDev \in [kind : DeviceKinds, features : {{}}]
    /\ vioPc = DriverAt("idle")
    /\ vioLog = << >>
    /\ vioStatus = DriverOkStatus
    /\ vioQueue \in { [DefaultVirtQueue EXCEPT !.ready = TRUE, !.available.index = i,
                                               !.used.index = i] : i \in RingIndexes }
    /\ vioDisk = [s \in 0 .. DiskSectors - 1 |-> "zeros"]
    /\ vioReq = NoRequest
    /\ vioArg = NoVioCall
    /\ vioOut = NoVioCall
    /\ vioHist = [requests |-> 0, wrote |-> DefaultUsedElement,
                  written |-> [s \in VioSectors |-> "none"]]

\* run_descriptor(0, descriptor_idx) up to the notification
VioRunDescriptor(descriptor_idx) ==
    /\ vioPc = DriverAt("idle")
    /\ vioHist.requests < MaxRequests
    /\ vioQueue' = run_descriptor_submit(vioQueue, descriptor_idx)
    /\ vioArg' = [op |-> "run_descriptor", descriptor_idx |-> descriptor_idx]
    /\ vioOut' = NoVioCall
    /\ vioLog' = Append(vioLog, WriteReg("QueueNotify", 0))
    /\ vioHist' = [vioHist EXCEPT !.requests = @ + 1]
    /\ vioPc' = DriverAt("waiting")
    /\ UNCHANGED <<vioDev, vioStatus, vioDisk, vioReq, nonVio>>

\* bytes of the chain's buffers the device may write
RECURSIVE WritableLength(_)
WritableLength(chain) ==
    IF chain = << >> THEN 0
    ELSE (IF "Write" \in Head(chain).flags THEN Head(chain).length ELSE 0)
         + WritableLength(Tail(chain))

\* The device takes the head at its position of the available ring, walks
\* the chain and puts the used element into the used ring.
VioServe ==
    /\ vioPc = DriverAt("waiting")
    /\ "DriverOk" \in vioStatus
    /\ queue_busy(vioQueue)
    /\ LET slot == vioQueue.used.index % QUEUE_SIZE
           head == vioQueue.available.ring[slot]
           chain == DescriptorChain(vioQueue.descriptor, head, QUEUE_SIZE)
           element == [index |-> head, length |-> WritableLength(chain)]
       IN /\ vioQueue' = [vioQueue EXCEPT
                !.used.ring[slot] = element,
                !.used.index = (@ + 1) % U16_RANGE]
          /\ vioHist' = [vioHist EXCEPT !.wrote = element]
    /\ UNCHANGED <<vioDev, vioPc, vioLog, vioStatus, vioDisk, vioReq, vioArg, vioOut, nonVio>>

\* run_descriptor leaves its busy loop and returns the used element it reads
VioRunReturn ==
    /\ vioPc = DriverAt("waiting")
    /\ ~queue_busy(vioQueue)
    /\ vioOut' = [op |-> "run_descriptor",
                  used |-> vioQueue.used.ring[used_slot_read(vioQueue.used.index)]]
    /\ vioArg' = NoVioCall
    /\ vioPc' = DriverAt("idle")
    /\ UNCHANGED <<vioDev, vioLog, vioStatus, vioQueue, vioDisk, vioReq, vioHist, nonVio>>

RunNext ==
    \/ \E descriptor_idx \in Heads : VioRunDescriptor(descriptor_idx)
    \/ VioServe
    \/ VioRunReturn

\* read_random's MAX_NUM_ITERS
MAX_NUM_ITERS == 128
\* buffer lengths read_random is called with
RandomLens == {1, 2, RngBigLen}
\* most bytes the entropy device hands out for one request
RngChunks == {1, 2}
NoRandomCall == [ty |-> "none"]

\* The entropy device after VirtioRandom::init_kernel_address.
RngInit ==
    /\ vioDev \in [kind : {"random"}, features : {{}}, chunk : RngChunks]
    /\ vioPc = DriverAt("idle")
    /\ vioLog = << >>
    /\ vioStatus = DriverOkStatus
    /\ vioQueue = [DefaultVirtQueue EXCEPT !.ready = TRUE]
    /\ vioDisk = [s \in 0 .. DiskSectors - 1 |-> "zeros"]
    /\ vioReq = NoRandomCall
    /\ vioArg = NoVioCall
    /\ vioOut = NoVioCall
    /\ vioHist = [requests |-> 0, calls |-> 0, shorts |-> 0]

\* read_random(buf) is called with a buffer of len bytes; `start` is where
\* the slice `buf` begins in it, `filled` the bytes the device has written.
RngCall(len) ==
    /\ vioPc = DriverAt("idle")
    /\ vioHist.calls < MaxRngCalls
    /\ vioReq' = [ty |-> "random", len |-> len, start |-> 0, num_iters |-> 0, filled |-> {}]
    /\ vioArg' = [op |-> "read_random", len |-> len]
    /\ vioOut' = NoVioCall
    /\ vioHist' = [vioHist EXCEPT !.calls = @ + 1, !.requests = 0]
    /\ vioPc' = DriverAt("loop")
    /\ UNCHANGED <<vioDev, vioLog, vioStatus, vioQueue, vioDisk, nonVio>>

\* One pass of the loop up to run_descriptor's notification: the count and
\* its limit, descriptor 0 for what is left of buf, the request published.
RngIterate ==
    /\ vioPc = DriverAt("loop")
    /\ LET num_iters == vioReq.num_iters + 1 IN
       IF num_iters > MAX_NUM_ITERS
       THEN /\ vioOut' = [op |-> "read_random", res |-> "Err(Io)", len |-> vioReq.len,
                            filled |-> vioReq.filled, requests |-> vioHist.requests]
            /\ vioArg' = NoVioCall
            /\ vioReq' = NoRandomCall
            /\ vioPc' = DriverAt("idle")
            /\ UNCHANGED <<vioQueue, vioLog, vioHist>>
       ELSE /\ vioReq' = [vioReq EXCEPT !.num_iters = num_iters]
            /\ vioQueue' = run_descriptor_submit(
                  [vioQueue EXCEPT !.descriptor[0] =
                      [address |-> vioReq.start, length |-> vioReq.len - vioReq.start,
                       flags |-> {"Write"}, next |-> 0]], 0)
            /\ vioLog' = Append(vioLog, WriteReg("QueueNotify", 0))
            /\ vioHist' = [vioHist EXCEPT !.requests = @ + 1]
            /\ vioPc' = DriverAt("waiting")
            /\ UNCHANGED <<vioArg, vioOut>>
    /\ UNCHANGED <<vioDev, vioStatus, vioDisk, nonVio>>

\* The entropy device fills the buffer of the head descriptor with as many
\* bytes as it has (its chunk, or now and then a single byte) and puts the
\* count into the used ring.
RngDevice ==
    /\ vioPc = DriverAt("waiting")
    /\ "DriverOk" \in vioStatus
    /\ queue_busy(vioQueue)
    /\ LET slot == vioQueue.used.index % QUEUE_SIZE
           head == vioQueue.available.ring[slot]
           buffer == vioQueue.descriptor[head]
           most == Min2(buffer.length, vioDev.chunk)
       IN \E n \in {most} \cup (IF most >= 2 /\ vioHist.shorts < MaxShortFills
                                  THEN {1} ELSE {}) :
            /\ vioReq' = [vioReq EXCEPT
                  !.filled = @ \cup (buffer.address .. buffer.address + n - 1)]
            /\ vioQueue' = [vioQueue EXCEPT
                  !.used.ring[slot] = [index |-> head, length |-> n],
                  !.used.index = (@ + 1) % U16_RANGE]
            /\ vioHist' = [vioHist EXCEPT !.shorts = IF n < most THEN @ + 1 ELSE @]
    /\ UNCHANGED <<vioDev, vioPc, vioLog, vioStatus, vioDisk, vioArg, vioOut, nonVio>>

\* run_descriptor returns the used element it reads; read_random compares
\* its length with what is left of buf, and returns or cuts buf and loops.
RngComplete ==
    /\ vioPc = DriverAt("waiting")
    /\ ~queue_busy(vioQueue)
    /\ LET used == vioQueue.used.ring[used_slot_read(vioQueue.used.index)]
           buf_len == vioReq.len - vioReq.start
       IN IF used.length = buf_len
          THEN /\ vioOut' = [op |-> "read_random", res |-> "Ok", len |-> vioReq.len,
                               filled |-> vioReq.filled, requests |-> vioHist.requests]
               /\ vioArg' = NoVioCall
               /\ vioReq' = NoRandomCall
               /\ vioPc' = DriverAt("idle")
          ELSE IF used.length > buf_len
          THEN /\ vioPc' = DriverAt("panic")
               /\ UNCHANGED <<vioOut, vioArg, vioReq>>
          ELSE /\ vioReq' = [vioReq EXCEPT !.start = @ + used.length]
               /\ vioPc' = DriverAt("loop")
               /\ UNCHANGED <<vioOut, vioArg>>
    /\ UNCHANGED <<vioDev, vioLog, vioStatus, vioQueue, vioDisk, vioHist, nonVio>>

RngNext ==
    \/ \E len \in RandomLens : RngCall(len)
    \/ RngIterate
    \/ RngDevice
    \/ RngComplete

(***************************************************************************)
(* 4.G Resource descriptors (src/src/resource_desc.rs, src/src/proc.rs)    *)
(***************************************************************************)
\* Layout::new::<KrcBoxInner<KSpinLock<ResourceDescription>>>() on rv32
DESCRIPTION_SIZE == 48
DESCRIPTION_ALIGN == 8

\* vtable close of a file description (file_close)
file_close(description) ==
    [description EXCEPT !.flags = {}, !.offset = 0, !.inode_num = 0, !.closes = @ + 1]

\* A drop of the last handle that calls close() and then lets Drop close again.
drop_descriptor_close_twice(ds, cls, id) ==
    LET d == deallocate_inner(cls, ds[id].addr, DESCRIPTION_SIZE, DESCRIPTION_ALIGN)
    IN [descs |-> [ds EXCEPT ![id] = file_close(file_close([@ EXCEPT !.refcount = 0]))],
        cls |-> d.cls, res |-> d.res]

\* Drop of a ResourceDescriptor: KrcBox::drop on its handle; the last handle
\* drops the ResourceDescription (Drop calls close) and frees the box.
drop_descriptor(ds, cls, id) ==
    IF ds[id].refcount = USIZE_MAX THEN [descs |-> ds, cls |-> cls, res |-> "Ok"]
    ELSE LET new_count == decrement_new_count(ds[id].refcount)
             counted == [ds EXCEPT ![id].refcount = new_count]
         IN IF new_count # 0 THEN [descs |-> counted, cls |-> cls, res |-> "Ok"]
            ELSE LET d == deallocate_inner(cls, ds[id].addr, DESCRIPTION_SIZE, DESCRIPTION_ALIGN)
                 IN [descs |-> [counted EXCEPT ![id] = file_close(@)], cls |-> d.cls,
                     res |-> d.res]

\* drop_in_place on the descriptor array: every Some slot is dropped.
RECURSIVE drop_in_place(_, _, _)
drop_in_place(ds, cls, rd) ==
    IF DOMAIN rd = {} THEN [descs |-> ds, cls |-> cls]
    ELSE LET desc_num == Min(DOMAIN rd)
             r == drop_descriptor(ds, cls, rd[desc_num])
         IN drop_in_place(r.descs, r.cls, [x \in DOMAIN rd \ {desc_num} |-> rd[x]])

\* file_read: the assertion on the flags, then read_file_from_offset; the
\* offset of the description is left as it is.
file_read(dbg, file_data, buf_len) ==
    IF ~({"Present", "Readable"} \subseteq file_data.flags) THEN [res |-> "panic", len |-> 0]
    ELSE read_file_from_offset(dbg, file_data.inode_num, file_data.offset, buf_len)

\* write_file_from_offset: clamps to the end of the file, which it never extends.
write_file_from_offset(inode_num, offset, buf_len) ==
    LET file_size == Disk[inode_num].size IN
    IF Disk[inode_num].type # "RegularFile" THEN [res |-> "panic", len |-> 0]
    ELSE IF offset >= file_size THEN [res |-> "Ok", len |-> 0]
    ELSE [res |-> "Ok", len |-> Min2(buf_len, file_size - offset)]

\* file_write: the assertion on the flags, the write, the offset advances.
file_write(file_data, buf_len) ==
    IF ~({"Present", "Writable"} \subseteq file_data.flags)
    THEN [res |-> "panic", len |-> 0, offset |-> file_data.offset]
    ELSE LET w == write_file_from_offset(file_data.inode_num, file_data.offset, buf_len)
         IN [res |-> w.res, len |-> w.len, offset |-> file_data.offset + w.len]

(***************************************************************************)
(* 4.H Syscall dispatcher (src/src/syscall.rs)                             *)
(***************************************************************************)
\* A path is its bytes; "0xFF" stands for a byte no UTF-8 text contains.
from_utf8(bytes) == \A i \in 1 .. Len(bytes) : bytes[i] # "0xFF"

strip_prefix(path_name) ==
    IF path_name # <<>> /\ Head(path_name) = "/"
    THEN [ok |-> TRUE, rest |-> Tail(path_name)]
    ELSE [ok |-> FALSE, rest |-> <<>>]

\* str::split('/'): the parts between the slashes, empty ones included
RECURSIVE split(_)
split(str) ==
    IF \E i \in 1 .. Len(str) : str[i] = "/"
    THEN LET i == Min({j \in 1 .. Len(str) : str[j] = "/"})
         IN <<SubSeq(str, 1, i - 1)>> \o split(SubSeq(str, i + 1, Len(str)))
    ELSE <<str>>

\* A slot search that starts over at slot 0 when every slot is taken.
find_slot_wrapping(rd) ==
    IF \E d \in 0 .. (MAX_NUM_RESOURCE_DESCRIPTORS - 1) : d \notin DOMAIN rd
    THEN Min({d \in 0 .. (MAX_NUM_RESOURCE_DESCRIPTORS - 1) : d \notin DOMAIN rd})
    ELSE 0

\* iter_mut().enumerate().find(|(_, slot)| slot.is_none()) on the descriptor
\* array: the number of the first empty slot, or -1 for None
find_free_slot(rd) ==
    IF \E d \in 0 .. (MAX_NUM_RESOURCE_DESCRIPTORS - 1) : d \notin DOMAIN rd
    THEN Min({d \in 0 .. (MAX_NUM_RESOURCE_DESCRIPTORS - 1) : d \notin DOMAIN rd})
    ELSE -1

\* syscall_open: the outcome (panic message, error kind or descriptor
\* number) and the descriptor table, descriptions and allocators after it.
syscall_open(rd, ds, cls, ptr, freed, path_name, open_flags) ==
    LET out(p, e, c, n) == [panic |-> p, err |-> e, desc_num |-> -1, rd |-> rd, descs |-> ds,
                            cls |-> c, next |-> n]
        flags == {"Present"}
                 \cup (IF "ReadOnly" \in open_flags THEN {"Readable"} ELSE {})
                 \cup (IF "WriteOnly" \in open_flags THEN {"Writable"} ELSE {})
        \* ResourceDescriptor::new on the description of the inode found
        new(desc_num, inode_num, box) ==
            LET description == [flags |-> flags, offset |-> 0, inode_num |-> inode_num,
                                refcount |-> 1, closes |-> 0, addr |-> box.addr]
            IN IF box.res = "panic"
               THEN out("not yet implemented: Return these pages", "none", box.cls, box.next)
               ELSE IF box.res = "OutOfMemory"
               THEN [out("none", "OutOfMemory", box.cls, box.next) EXCEPT
                        !.descs = Append(ds, [file_close(description) EXCEPT !.refcount = 0])]
               ELSE [panic |-> "none", err |-> "none", desc_num |-> desc_num,
                     rd |-> [d \in DOMAIN rd \cup {desc_num} |->
                               IF d = desc_num THEN Len(ds) + 1 ELSE rd[d]],
                     descs |-> Append(ds, description), cls |-> box.cls, next |-> box.next]
        looked_up(desc_num, l) ==
            IF l.res = "todo"
            THEN out("not yet implemented: Support big directories", "none", l.cls, l.next)
            ELSE IF l.res = "Out of memory" THEN out("Out of memory", "none", l.cls, l.next)
            ELSE IF l.res = "None" THEN out("none", "NotFound", l.cls, l.next)
            ELSE IF "Append" \in open_flags
            THEN out("not yet implemented: Set offset to end of file", "none", l.cls, l.next)
            ELSE new(desc_num, l.inode_num,
                     allocate_inner(l.cls, l.next, freed, DESCRIPTION_SIZE, DESCRIPTION_ALIGN))
    IN IF ~from_utf8(path_name) THEN out("none", "InvalidFormat", cls, ptr)
       ELSE IF ~strip_prefix(path_name).ok THEN out("none", "InvalidFormat", cls, ptr)
       ELSE IF find_free_slot(rd) = -1 THEN out("none", "LimitReached", cls, ptr)
       ELSE looked_up(find_free_slot(rd),
                      lookup_path(ROOT_INODE, split(strip_prefix(path_name).rest), cls, ptr,
                                  freed))


\* Inputs of the syscalls.
DescNums == {0, 1, MAX_NUM_RESOURCE_DESCRIPTORS - 1, MAX_NUM_RESOURCE_DESCRIPTORS, -1}
BufRegions ==
    { <<USER_BASE_PAGE, 0, 16>>, <<USER_BASE_PAGE, 0, 2>>, <<USER_BASE_PAGE, 8, 0>>,
      <<KernelBase, 0, 16>>, <<MMAP_BASE_PAGE, 0, 16>>, <<LastPage, 0, 2 * PAGE_SIZE>> }
Paths ==
    { <<"/", "h">>, <<"h">>, <<"/", "x">>, <<"0xFF">>, <<"/">>, <<"/", "d", "/", "x">>,
      <<"/", "h", "/", "x">> }
PathPages == {USER_BASE_PAGE, KernelBase}
OpenFlagSets == { {"ReadOnly"}, {"WriteOnly"}, {"ReadOnly", "Append"} }
\* a1 of Mmap as a two's-complement value: -1 is 0xFFFF_FFFF
MmapSizes == {0, 1, PAGE_SIZE + 1, 16 * PAGE_SIZE, -1}
\* a1 of an Mmap that asks for exactly the RAM the bump cursor has left
AllFreeRam == (FreeRamEnd - NEXT_PTR) * PAGE_SIZE
OtherSyscalls == {"PutChar", "GetChar"}

SysInit ==
    /\ frame = [a0 |-> "none", a1 |-> 0, a2 |-> "unchanged"]
    /\ descs = <<>>
    /\ classes = [c \in 0 .. (NUM_SIZE_CLASSES - 1) |-> NewFixedSizeAllocator]
    /\ closed = {}
    /\ lastRead = -1
    /\ mmaps = <<>>
    /\ filled = 0

\* A user process is running and traps into handle_syscall.
Running ==
    /\ panicked = "none"
    /\ booted
    /\ CURRENT_PROC_SLOT \in Slots
    /\ procState[CURRENT_PROC_SLOT] = "Runnable"

\* kernel_main: the user process, the idle process, the first switch
\* (main.rs:67-73).
KernelMain ==
    /\ panicked = "none"
    /\ ~booted
    /\ \A s \in Slots : procState[s] = "Unused"
    /\ LET boot(user_proc, idle_proc) ==
          IF user_proc.res # "Ok" \/ idle_proc.res # "Ok"
          THEN /\ panicked' = "create_process failed"
               /\ UNCHANGED <<schedVars, NEXT_PTR>>
          ELSE /\ procState' = [procState EXCEPT ![0] = "Runnable", ![1] = "Idle"]
               /\ procPid' = [procPid EXCEPT ![0] = PID_COUNTER, ![1] = PID_COUNTER + 1]
               /\ PID_COUNTER' = PID_COUNTER + 2
               /\ procMmapHead' = [procMmapHead EXCEPT ![0] = MMAP_BASE_PAGE,
                                                       ![1] = MMAP_BASE_PAGE]
               /\ procRdPtr' = [procRdPtr EXCEPT ![0] = user_proc.rd, ![1] = idle_proc.rd]
               /\ procPt' = [procPt EXCEPT ![0] = user_proc.pt, ![1] = idle_proc.pt]
               /\ NEXT_PTR' = idle_proc.next
               /\ booted' = TRUE
               /\ LET sw == switch_context(debug_assertions, procState', 0) IN
                  /\ CURRENT_PROC_SLOT' = sw.cur
                  /\ panicked' = sw.panic
               /\ UNCHANGED procRd
           then_idle(user_proc) == boot(user_proc, create_process(user_proc.next, FREED_PAGES, 0))
       IN then_idle(create_process(NEXT_PTR, FREED_PAGES, UserImagePages))
    /\ UNCHANGED <<debug_assertions, FreeRamEnd, FREED_PAGES, live, allocPc, allocHead, allocN, allocCalls,
                   nonSched>>

\* GET_PID_NUM
SysGetPid ==
    /\ Running
    /\ frame' = [a0 |-> "GetPid", a1 |-> procPid[CURRENT_PROC_SLOT], a2 |-> "unchanged"]
    /\ UNCHANGED <<debug_assertions, FreeRamEnd, panicked, schedVars, pageVars, descs, classes, closed,
                   lastRead, mmaps, filled, nonKernel>>

\* EXIT_NUM: Exited, the descriptors dropped, their page freed, sched_yield.
SysExit ==
    /\ Running
    /\ LET cur == CURRENT_PROC_SLOT
           st == [procState EXCEPT ![cur] = "Exited"]
           dropped == drop_in_place(descs, classes, procRd[cur])
           y == sched_yield(debug_assertions, st, cur)
       IN /\ procState' = st
          /\ descs' = dropped.descs
          /\ classes' = dropped.cls
          /\ procRd' = [procRd EXCEPT ![cur] = EmptyRd]
          /\ FREED_PAGES' = insert(FREED_PAGES, procRdPtr[cur], RdPages)
          /\ CURRENT_PROC_SLOT' = y.cur
          /\ panicked' = y.panic
    /\ closed' = {}
    /\ UNCHANGED <<debug_assertions, FreeRamEnd, procPid, procMmapHead, procRdPtr, procPt, PID_COUNTER, booted,
                   NEXT_PTR, live, allocPc, allocHead, allocN, allocCalls, frame, lastRead, mmaps, filled,
                   nonKernel>>

\* GET_RANDOM_NUM: the buffer check, then the entropy device fills it.
SysGetRandom(region) ==
    /\ Running
    /\ LET fr == for_region(procPt[CURRENT_PROC_SLOT], debug_assertions, region, TRUE) IN
       /\ panicked' = IF fr = "panic" THEN "attempt to add with overflow" ELSE panicked
       /\ frame' = IF fr = "panic" THEN frame
                   ELSE IF fr = "None" THEN [a0 |-> "GetRandom", a1 |-> -1, a2 |-> "NotPermitted"]
                   ELSE [a0 |-> "GetRandom", a1 |-> 0, a2 |-> "unchanged"]
    /\ UNCHANGED <<debug_assertions, FreeRamEnd, schedVars, pageVars, descs, classes, closed, lastRead, mmaps, filled,
                   nonKernel>>

\* OPEN_NUM
SysOpen(path_page, path_name, open_flags) ==
    /\ Running
    /\ Len(descs) < MaxOpens + filled
    /\ LET cur == CURRENT_PROC_SLOT
           opened(o) ==
               /\ panicked' = o.panic
               /\ closed' = IF o.panic = "none" /\ o.err = "none" THEN closed \ {o.desc_num}
                             ELSE closed
               /\ frame' = IF o.panic # "none" THEN frame
                           ELSE IF o.err # "none" THEN [a0 |-> "Open", a1 |-> -1, a2 |-> o.err]
                           ELSE [a0 |-> "Open", a1 |-> o.desc_num, a2 |-> "unchanged"]
               /\ procRd' = [procRd EXCEPT ![cur] = o.rd]
               /\ descs' = o.descs
               /\ classes' = o.cls
               /\ NEXT_PTR' = o.next
           checked(fr) ==
               IF fr # "Some"
               THEN /\ panicked' = IF fr = "panic" THEN "attempt to add with overflow"
                                   ELSE panicked
                    /\ frame' = IF fr = "panic" THEN frame
                                ELSE [a0 |-> "Open", a1 |-> -1, a2 |-> "NotPermitted"]
                    /\ UNCHANGED <<procRd, descs, classes, NEXT_PTR, closed>>
               ELSE opened(syscall_open(procRd[cur], descs, classes, NEXT_PTR, FREED_PAGES,
                                        path_name, open_flags))
       IN checked(for_region(procPt[cur], debug_assertions, <<path_page, 0, Len(path_name)>>,
                             FALSE))
    /\ UNCHANGED <<debug_assertions, FreeRamEnd, procState, procPid, procMmapHead, procRdPtr, procPt,
                   CURRENT_PROC_SLOT, PID_COUNTER, booted, FREED_PAGES, live, allocPc, allocHead,
                   allocN, allocCalls, lastRead, mmaps, filled, nonKernel>>

FillRun == 32

\* The user process calls Open("/h", ReadOnly) k times in a row and stops at
\* the first call that fails: o is the outcome of the last call made.
RECURSIVE open_times(_, _, _)
open_times(o, freed, k) ==
    IF k = 0 \/ o.panic # "none" \/ o.err # "none" THEN o
    ELSE open_times(syscall_open(o.rd, o.descs, o.cls, o.next, freed, <<"/", "h">>,
                                 {"ReadOnly"}),
                    freed, k - 1)

\* open_times in runs of FillRun calls (the calls are the same; only the
\* depth of the evaluation differs)
RECURSIVE open_runs(_, _, _)
open_runs(o, freed, runs) ==
    IF runs = 0 \/ o.panic # "none" \/ o.err # "none" THEN o
    ELSE open_runs(open_times(o, freed, FillRun), freed, runs - 1)
open_many(o, freed, k) == open_times(open_runs(o, freed, k \div FillRun), freed, k % FillRun)

\* OPEN_NUM, k times over, by a process that has not opened anything yet.
FillTable(k) ==
    /\ Running
    /\ descs = <<>>
    /\ for_region(procPt[CURRENT_PROC_SLOT], debug_assertions, <<USER_BASE_PAGE, 0, 2>>, FALSE)
          = "Some"
    /\ LET cur == CURRENT_PROC_SLOT
           opened(o) ==
               /\ panicked' = o.panic
               /\ frame' = IF o.panic # "none" THEN frame
                           ELSE IF o.err # "none" THEN [a0 |-> "Open", a1 |-> -1, a2 |-> o.err]
                           ELSE [a0 |-> "Open", a1 |-> o.desc_num, a2 |-> "unchanged"]
               /\ procRd' = [procRd EXCEPT ![cur] = o.rd]
               /\ descs' = o.descs
               /\ classes' = o.cls
               /\ NEXT_PTR' = o.next
               /\ filled' = Len(o.descs)
       IN opened(open_many([panic |-> "none", err |-> "none", desc_num |-> -1,
                            rd |-> procRd[cur], descs |-> descs, cls |-> classes,
                            next |-> NEXT_PTR],
                           FREED_PAGES, k))
    /\ UNCHANGED <<debug_assertions, FreeRamEnd, procState, procPid, procMmapHead, procRdPtr, procPt,
                   CURRENT_PROC_SLOT, PID_COUNTER, booted, FREED_PAGES, live, allocPc, allocHead,
                   allocN, allocCalls, closed, lastRead, mmaps, nonKernel>>

\* CLOSE_NUM: the assertion on the number, then take() on the slot; a1 is
\* written only when the slot was empty.
SysClose(desc_num) ==
    /\ Running
    /\ LET cur == CURRENT_PROC_SLOT IN
       IF ~(desc_num >= 0 /\ desc_num < MAX_NUM_RESOURCE_DESCRIPTORS)
       THEN /\ panicked' = "assertion failed: desc_num < MAX_NUM_RESOURCE_DESCRIPTORS"
            /\ UNCHANGED <<frame, procRd, descs, classes, closed>>
       ELSE IF desc_num \notin DOMAIN procRd[cur]
       THEN /\ frame' = [a0 |-> "Close", a1 |-> -1, a2 |-> "NotFound"]
            /\ UNCHANGED <<panicked, procRd, descs, classes, closed>>
       ELSE LET r == drop_descriptor(descs, classes, procRd[cur][desc_num]) IN
            /\ frame' = [a0 |-> "Close", a1 |-> desc_num, a2 |-> "unchanged"]
            /\ procRd' = [procRd EXCEPT ![cur] = [d \in DOMAIN @ \ {desc_num} |-> @[d]]]
            /\ descs' = r.descs
            /\ classes' = r.cls
            /\ closed' = closed \cup {desc_num}
            /\ UNCHANGED panicked
    /\ UNCHANGED <<debug_assertions, FreeRamEnd, procState, procPid, procMmapHead, procRdPtr, procPt,
                   CURRENT_PROC_SLOT, PID_COUNTER, booted, pageVars, lastRead, mmaps, filled, nonKernel>>


\* A read that takes an empty slot for a resource at its end.
syscall_read_empty_ok(rd, ds, dbg, desc_num, buf_len) ==
    IF ~(desc_num >= 0 /\ desc_num < MAX_NUM_RESOURCE_DESCRIPTORS)
    THEN [res |-> "panic", len |-> 0, msg |-> "index out of bounds"]
    ELSE IF desc_num \notin DOMAIN rd
    THEN [res |-> "Ok", len |-> 0, msg |-> "none"]
    ELSE LET r == file_read(dbg, ds[rd[desc_num]], buf_len) IN
         [res |-> r.res, len |-> r.len, msg |-> "assertion failed in file read"]

\* syscall_read: the slot is indexed (a number past the array panics), an
\* empty slot is NotFound, otherwise the description's vtable read runs.
syscall_read(rd, ds, dbg, desc_num, buf_len) ==
    IF ~(desc_num >= 0 /\ desc_num < MAX_NUM_RESOURCE_DESCRIPTORS)
    THEN [res |-> "panic", len |-> 0, msg |-> "index out of bounds"]
    ELSE IF desc_num \notin DOMAIN rd
    THEN [res |-> "NotFound", len |-> 0, msg |-> "none"]
    ELSE LET r == file_read(dbg, ds[rd[desc_num]], buf_len) IN
         [res |-> r.res, len |-> r.len, msg |-> "assertion failed in file read"]

\* READ_NUM: the buffer check, then syscall_read, whose copy into the buffer
\* traps (handle_trap panics) if a byte of it is not mapped writable.
SysRead(desc_num, region) ==
    /\ Running
    /\ LET cur == CURRENT_PROC_SLOT
           fr == for_region(procPt[cur], debug_assertions, region, TRUE)
           copied(r, c) ==
               /\ panicked' = IF r.res = "panic" THEN r.msg
                              ELSE IF c.fault THEN "Unexpected trap" ELSE panicked
               /\ frame' = IF r.res = "panic" \/ c.fault THEN frame
                           ELSE IF r.res = "Ok" THEN [a0 |-> "Read", a1 |-> r.len, a2 |-> "unchanged"]
                           ELSE [a0 |-> "Read", a1 |-> -1, a2 |-> r.res]
               /\ kmem' = IF r.res = "panic" \/ c.fault THEN kmem ELSE c.mem
           read(r) == copied(r, copy_from_slice(procPt[cur], kmem, StackPages, region,
                                                IF r.res = "Ok" THEN r.len ELSE 0))
       IN IF fr = "panic"
          THEN /\ panicked' = "attempt to add with overflow"
               /\ UNCHANGED <<frame, kmem>>
          ELSE IF fr = "None"
          THEN /\ frame' = [a0 |-> "Read", a1 |-> -1, a2 |-> "NotPermitted"]
               /\ UNCHANGED <<panicked, kmem>>
          ELSE read(syscall_read(procRd[cur], descs, debug_assertions, desc_num, region[3]))
    /\ lastRead' = desc_num
    /\ UNCHANGED <<debug_assertions, FreeRamEnd, schedVars, pageVars, descs, classes, closed, mmaps, filled,
                   nonKernelMem>>

\* WRITE_NUM: the buffer check, the slot lookup, the vtable write.
SysWrite(desc_num, region) ==
    /\ Running
    /\ LET cur == CURRENT_PROC_SLOT
           fr == for_region(procPt[cur], debug_assertions, region, FALSE)
       IN IF fr = "panic"
          THEN /\ panicked' = "attempt to add with overflow"
               /\ UNCHANGED <<frame, descs>>
          ELSE IF fr = "None"
          THEN /\ frame' = [a0 |-> "Write", a1 |-> -1, a2 |-> "NotPermitted"]
               /\ UNCHANGED <<panicked, descs>>
          ELSE IF ~(desc_num >= 0 /\ desc_num < MAX_NUM_RESOURCE_DESCRIPTORS)
          THEN /\ panicked' = "index out of bounds"
               /\ UNCHANGED <<frame, descs>>
          ELSE IF desc_num \notin DOMAIN procRd[cur]
          THEN /\ frame' = [a0 |-> "Write", a1 |-> -1, a2 |-> "NotFound"]
               /\ UNCHANGED <<panicked, descs>>
          ELSE LET id == procRd[cur][desc_num]
                   w == file_write(descs[id], region[3])
               IN /\ panicked' = IF w.res = "panic" THEN "assertion failed in file write"
                                 ELSE panicked
                  /\ frame' = IF w.res = "panic" THEN frame
                              ELSE [a0 |-> "Write", a1 |-> w.len, a2 |-> "unchanged"]
                  /\ descs' = [descs EXCEPT ![id].offset = w.offset]
    /\ UNCHANGED <<debug_assertions, FreeRamEnd, schedVars, pageVars, classes, closed, lastRead, mmaps, filled, nonKernel>>

\* (alloc_size as usize).div_ceil(PAGE_SIZE) for a two's-complement alloc_size
MmapPages(alloc_size) ==
    IF alloc_size >= 0 THEN DivCeil(alloc_size, PAGE_SIZE)
    ELSE AddressSpacePages + (alloc_size \div PAGE_SIZE)
         + (IF alloc_size % PAGE_SIZE = 0 THEN 0 ELSE 1)

\* syscall_mmap: pages from the page allocator (unwrap), mmap_head moves past
\* them and one more page, each page is mapped R+W+X+U.
syscall_mmap(pt, mmap_head, ptr, freed, alloc_size) ==
    LET alloc_num_pages == MmapPages(alloc_size)
        alloc_first_page == alloc_pages(ptr, freed, alloc_num_pages)
    IN IF alloc_first_page.res # "Ok"
       THEN [panic |-> "called Result::unwrap() on an Err value", err |-> "none",
             pt |-> pt, mmap_head |-> mmap_head, next |-> alloc_first_page.next,
             start |-> mmap_head]
       ELSE LET m == map_pages(pt, alloc_first_page.next, freed,
                               [i \in 1 .. alloc_num_pages |->
                                   <<mmap_head + i - 1, alloc_first_page.ptr + i - 1, RWXU>>])
            IN [panic |-> IF m.res = "panic" THEN "map_page assertion failed" ELSE "none",
                err |-> IF m.res = "OutOfMemory" THEN "OutOfMemory" ELSE "none",
                pt |-> m.pt, mmap_head |-> mmap_head + alloc_num_pages + 1, next |-> m.next,
                start |-> mmap_head]

\* MMAP_NUM
SysMmap(alloc_size) ==
    /\ Running
    /\ Len(mmaps) < MaxMmaps
    /\ LET cur == CURRENT_PROC_SLOT
           m == syscall_mmap(procPt[cur], procMmapHead[cur], NEXT_PTR, FREED_PAGES, alloc_size)
       IN /\ panicked' = m.panic
          /\ frame' = IF m.panic # "none" THEN frame
                      ELSE IF m.err # "none" THEN [a0 |-> "Mmap", a1 |-> -1, a2 |-> m.err]
                      ELSE [a0 |-> "Mmap", a1 |-> m.start * PAGE_SIZE, a2 |-> "unchanged"]
          /\ procPt' = [procPt EXCEPT ![cur] = m.pt]
          /\ procMmapHead' = [procMmapHead EXCEPT ![cur] = m.mmap_head]
          /\ NEXT_PTR' = m.next
          /\ mmaps' = IF m.panic = "none" /\ m.err = "none"
                      THEN Append(mmaps, <<m.start, MmapPages(alloc_size)>>)
                      ELSE mmaps
    /\ UNCHANGED <<debug_assertions, FreeRamEnd, procState, procPid, procRd, procRdPtr, CURRENT_PROC_SLOT,
                   PID_COUNTER, booted, FREED_PAGES, live, allocPc, allocHead, allocN, allocCalls,
                   descs, classes, closed, lastRead, filled, nonKernel>>

\* MUNMAP_NUM: nothing is unmapped, a1 = 0.
SysMunmap ==
    /\ Running
    /\ frame' = [a0 |-> "Munmap", a1 |-> 0, a2 |-> "unchanged"]
    /\ UNCHANGED <<debug_assertions, FreeRamEnd, panicked, schedVars, pageVars, descs, classes, closed,
                   lastRead, mmaps, filled, nonKernel>>

\* Any other number in a0.
SysUnrecognized(number) ==
    /\ Running
    /\ panicked' = "Unrecognized syscall"
    /\ UNCHANGED <<debug_assertions, FreeRamEnd, schedVars, pageVars, sysVars, nonKernel>>

(***************************************************************************)
(* Specifications                                                          *)
(***************************************************************************)
MoreQuiet == AtomQuiet /\ Ext2Quiet /\ VioQuiet
PrimQuiet == RcQuiet /\ OnceQuiet /\ SpinQuiet /\ LazyQuiet /\ MoreQuiet
KernelQuiet == SchedInit /\ PageQuiet /\ SysInit /\ CtxInit /\ HeapInit

InitPage ==
    /\ FreeRamEnd = FreeRam + FreeRamPages
    /\ debug_assertions \in BOOLEAN
    /\ panicked = "none"
    /\ SchedInit /\ SysInit /\ CtxInit /\ HeapInit /\ PageInit /\ GuardQuiet /\ PrimQuiet
NextPage == PageNext
SpecPage == InitPage /\ [][NextPage]_vars

InitGuard ==
    /\ FreeRamEnd = FreeRam + FreeRamPages
    /\ debug_assertions \in BOOLEAN
    /\ panicked = "none"
    /\ KernelQuiet /\ GuardInit /\ PrimQuiet
NextGuard == GuardNext
SpecGuard == InitGuard /\ [][NextGuard]_vars

InitKernel ==
    /\ FreeRamEnd = FreeRam + FreeRamPages
    /\ debug_assertions \in BOOLEAN
    /\ panicked = "none"
    /\ KernelQuiet /\ GuardQuiet /\ PrimQuiet

\* The process table under any boot sequence, yields and exits.
NextSched ==
    \/ \E n \in {0, UserImagePages} : CreateProcess(n)
    \/ \E s \in Slots : SetIdle(s)
    \/ \E old, new \in Slots : BootSwitch(old, new)
    \/ SchedYield
    \/ SysExit
SpecSched == InitKernel /\ [][NextSched]_vars
\* every running process keeps calling sched_yield
FairSched == SpecSched /\ WF_vars(SchedYield)

\* The process table on a machine with RAM for MAX_PROCS processes, when the
\* kernel calls create_process (with an empty image, as kernel_main does for
\* the idle process) at any time, also after processes have exited.
InitProcTable ==
    /\ FreeRamEnd = FreeRam + ProcTableRamPages
    /\ debug_assertions \in BOOLEAN
    /\ panicked = "none"
    /\ KernelQuiet /\ GuardQuiet /\ PrimQuiet
NextProcTable ==
    \/ ProcessCreate(0)
    \/ \E s \in Slots : SetIdle(s)
    \/ \E old, new \in Slots : BootSwitch(old, new)
    \/ SchedYield
    \/ SysExit
SpecProcTable == InitProcTable /\ [][NextProcTable]_vars

\* The kernel as kernel_main boots it, driven by the descriptor syscalls of
\* the user process.
NextSys ==
    \/ KernelMain
    \/ SysGetPid
    \/ SchedYield
    \/ SysExit
    \/ \E pg \in PathPages, p \in Paths, f \in OpenFlagSets : SysOpen(pg, p, f)
    \/ \E d \in DescNums : SysClose(d)
    \/ \E d \in DescNums, r \in BufRegions : SysRead(d, r)
    \/ \E d \in DescNums, r \in BufRegions : SysWrite(d, r)
    \/ \E n \in OtherSyscalls : SysUnrecognized(n)
SpecSys == InitKernel /\ [][NextSys]_vars

\* The same kernel and syscalls, with a user process that first opens a file
\* until its descriptor table is full or one slot short of it.
NextFull ==
    \/ KernelMain
    \/ \E k \in {MAX_NUM_RESOURCE_DESCRIPTORS - 1, MAX_NUM_RESOURCE_DESCRIPTORS} : FillTable(k)
    \/ \E pg \in PathPages, p \in Paths : SysOpen(pg, p, {"ReadOnly"})
    \/ \E d \in DescNums : SysClose(d)
SpecFull == InitKernel /\ [][NextFull]_vars

\* The kernel allocator under any sequence of alloc and dealloc calls.
NextHeap ==
    \/ \E layout \in HeapLayouts : KAlloc(layout)
    \/ \E block \in heap : KDealloc(block)
SpecHeap == InitKernel /\ [][NextHeap]_vars
\* Two size classes under any sequence of allocations and frees.
NextSizeClass ==
    \/ \E layout \in ClassLayouts : KAllocUpTo(layout, MaxClassBlocks)
    \/ \E block \in heap : KDealloc(block)
SpecSizeClass == InitKernel /\ [][NextSizeClass]_vars

\* A user process may hand Read any buffer: one in its image, or the frame a
\* suspended process saved, with a length that reaches the end of the address space.
SavedFrames ==
    { <<procSp[s][1], procSp[s][2], (AddressSpacePages - procSp[s][1]) * PAGE_SIZE - procSp[s][2]>> :
        s \in { t \in Slots : switchedAway[t].valid } }

\* The kernel booted with one or more user processes that open and read a
\* file and yield to each other.
NextCtx ==
    \/ \E n \in 1 .. MaxUsers, rf \in RegFiles, depth \in FrameDepths : CtxBoot(n, rf, depth)
    \/ \E rf \in RegFiles, depth \in FrameDepths : CtxYield(rf, depth)
    \/ SysOpen(USER_BASE_PAGE, <<"/", "h">>, {"ReadOnly"})
    \/ \E r \in {<<USER_BASE_PAGE, 0, 16>>} \cup SavedFrames : SysRead(0, r)
SpecCtx == InitKernel /\ [][NextCtx]_vars

\* The same kernel, driven by the memory syscalls of the user process.
NextMem ==
    \/ KernelMain
    \/ \E r \in BufRegions : SysGetRandom(r)
    \/ \E n \in MmapSizes \cup {AllFreeRam} : SysMmap(n)
    \/ SysMunmap
    \/ SysExit
SpecMem == InitKernel /\ [][NextMem]_vars

InitPrim ==
    /\ FreeRamEnd = FreeRam + FreeRamPages
    /\ debug_assertions \in BOOLEAN
    /\ panicked = "none"
    /\ KernelQuiet /\ GuardQuiet
InitRc == InitPrim /\ RcInit /\ OnceQuiet /\ SpinQuiet /\ LazyQuiet /\ MoreQuiet
SpecRc == InitRc /\ [][RcNext]_vars
InitRcSat == InitPrim /\ RcSatInit /\ OnceQuiet /\ SpinQuiet /\ LazyQuiet /\ MoreQuiet
SpecRcSat == InitRcSat /\ [][RcSatNext]_vars
InitOnce == InitPrim /\ RcQuiet /\ OnceInit /\ SpinQuiet /\ LazyQuiet /\ MoreQuiet
SpecOnce == InitOnce /\ [][OnceNext]_vars
InitOnceAny == InitPrim /\ RcQuiet /\ OnceAnyInit /\ SpinQuiet /\ LazyQuiet /\ MoreQuiet
SpecOnceAny == InitOnceAny /\ [][OnceNext]_vars
InitSpin == InitPrim /\ RcQuiet /\ OnceQuiet /\ SpinInit /\ LazyQuiet /\ MoreQuiet
SpecSpin == InitSpin /\ [][SpinNext]_vars
InitLazy == InitPrim /\ RcQuiet /\ OnceQuiet /\ SpinQuiet /\ LazyInit /\ MoreQuiet
SpecLazy == InitLazy /\ [][LazyNext]_vars
InitAtom == InitPrim /\ RcQuiet /\ OnceQuiet /\ SpinQuiet /\ LazyQuiet /\ AtomInit /\ Ext2Quiet /\ VioQuiet
InitExt2 == InitPrim /\ RcQuiet /\ OnceQuiet /\ SpinQuiet /\ LazyQuiet /\ AtomQuiet /\ Ext2Init /\ VioQuiet
SpecExt2 == InitExt2 /\ [][Ext2Next]_vars
InitExt2Inode == InitPrim /\ RcQuiet /\ OnceQuiet /\ SpinQuiet /\ LazyQuiet /\ AtomQuiet /\ Ext2Init /\ VioQuiet
SpecExt2Inode == InitExt2Inode /\ [][Ext2InodeNext]_vars
InitVirtio == InitPrim /\ RcQuiet /\ OnceQuiet /\ SpinQuiet /\ LazyQuiet /\ AtomQuiet /\ Ext2Quiet /\ VioInit
SpecVirtio == InitVirtio /\ [][VioNext]_vars
InitRunDescriptor == InitPrim /\ RcQuiet /\ OnceQuiet /\ SpinQuiet /\ LazyQuiet /\ AtomQuiet /\ Ext2Quiet /\ RunInit
SpecRunDescriptor == InitRunDescriptor /\ [][RunNext]_vars
InitRandom == InitPrim /\ RcQuiet /\ OnceQuiet /\ SpinQuiet /\ LazyQuiet /\ AtomQuiet /\ Ext2Quiet /\ RngInit
SpecRandom == InitRandom /\ [][RngNext]_vars
SpecAtom == InitAtom /\ [][AtomNext]_vars

(***************************************************************************)
(* Properties                                                              *)
(***************************************************************************)

\* C1: scheduler progress.  Every slot whose state is Runnable eventually
\* becomes the current process, provided the running process keeps calling
\* sched_yield (FairSched), for any number and position of Runnable slots.
C1_SchedulerProgress ==
    \A s \in Slots :
        (booted /\ panicked = "none" /\ procState[s] = "Runnable")
            ~> (CURRENT_PROC_SLOT = s)

\* The pages of an allocation: [ptr, ptr + num_pages), in page numbers.
AllocInFreeRam(a) == a.ptr >= FreeRam /\ a.ptr + a.num_pages <= FreeRamEnd
AllocsOverlap(a, b) ==
    /\ a.num_pages > 0 /\ b.num_pages > 0
    /\ a.ptr < b.ptr + b.num_pages
    /\ b.ptr < a.ptr + a.num_pages

\* C2: page allocator.  After any interleaving of alloc_pages(n) and
\* free_pages(p, n), for every n, each live allocation lies within
\* [__free_ram, __free_ram_end) and no two live allocations overlap
\* (page alignment holds by the page-number representation).
C2_AllocationsInFreeRamDisjoint ==
    /\ \A a \in live : AllocInFreeRam(a)
    /\ \A a, b \in live : a # b => ~AllocsOverlap(a, b)

\* C3: per-syscall errors are never fatal.  Whatever the arguments of a
\* recognised syscall (GetPid .. Munmap), the kernel does not panic: the only
\* panic a trap may cause is the one for an unrecognised syscall number.
C3_RecognisedSyscallsNeverPanic ==
    booted => panicked \in {"none", "Unrecognized syscall"}

\* The pages the bytes [start, start + len) of a region lie on: none for a
\* zero-length region.
TouchedPages(region) ==
    IF region[3] = 0
    THEN {}
    ELSE {WrapPage(p) : p \in region[1] .. (region[1] + (region[2] + region[3] - 1) \div PAGE_SIZE)}

\* C4: user-memory guard.  for_region(start, len) returns Some if and only if
\* every page touched by [start, start + len) is mapped in the active table
\* with Valid, UserAccessible and Readable (and Writable for the Mut variant),
\* zero-length regions and regions with start + len > 2^32 included.
C4_ForRegionSomeIffPagesPermitted ==
    guardResult # "pending" =>
        (guardResult = "Some" <=>
            \A vpn \in TouchedPages(guardRegion) :
                /\ vpn \in DOMAIN guardPt.leaf
                /\ (IF guardMut THEN UserMutFlags ELSE UserRefFlags)
                       \subseteq guardPt.leaf[vpn].flags)

\* C5: reference-counted box.  Under any interleaving of clone and drop on the
\* handles of one allocation (count not saturated) the payload is destroyed
\* and its memory freed at most once, only when no handle exists any more,
\* and exactly once when the last handle has been dropped; while a handle
\* exists the count is at least 1.
C5_PayloadDestroyedOnceAtLastDrop ==
    /\ rcDestroyed <= 1
    /\ rcFreed <= rcDestroyed
    /\ (rcDestroyed >= 1 \/ \E t \in Threads : rcPc[t] \in {"destroy", "free"}) => RcLive = 0
    /\ (RcLive = 0 /\ \A t \in Threads : rcPc[t] = "idle") => (rcDestroyed = 1 /\ rcFreed = 1)
    /\ RcLive >= 1 => refcount >= 1

\* A clone was made (a count of 2 was seen), every handle was dropped and the
\* payload has been destroyed and freed.
C5_Witness ==
    /\ rcDestroyed = 1
    /\ rcFreed = 1
    /\ \E t \in Threads : rcOld[t] >= 2
    /\ \A t \in Threads : rcPc[t] = "idle"

\* C6: OnceLock::get returns None until the value is there.  Under any
\* interleaving of get() with a concurrent set(v), a get() that returned Some
\* received a value that set had finished writing, never the unwritten cell.
C6_GetNeverSomeBeforeWrite ==
    \A t \in Threads : onceGot[t].some => onceGot[t].value \in OnceValues

\* C7: spinlock mutual exclusion.  Under any interleaving of lock(),
\* try_lock() and guard drops on one KSpinLock at most one guard exists and
\* the flag is set exactly while it does; a try_lock that found the lock held
\* returned None and left the flag set; with no guard left (the guard
\* dropped) the lock can be acquired.
C7_SpinlockMutualExclusion ==
    /\ SumOver(guards, Threads) <= 1
    /\ flag <=> (SumOver(guards, Threads) = 1)
    /\ \A t \in Threads :
          spinTry[t].before => (spinTry[t].res = "None" /\ spinTry[t].after)
    /\ SumOver(guards, Threads) = 0 => \E o \in try_lock(flag) : o.ok

\* One thread holds the guard, another's try_lock found the lock held and
\* returned None, a third is yielding inside lock().
C7_Witness ==
    \E t, u, w \in Threads :
        /\ guards[t] = 1
        /\ u # t /\ spinTry[u].before /\ spinTry[u].res = "None"
        /\ spinPc[w] = "yield"

\* C8: LazyLock.  Under any interleaving of force() calls on one LazyLock the
\* init function runs at most once, a force() has returned only with finished
\* set (and the value written), and a force() whose swap found started set
\* while finished was still clear has panicked.
C8_LazyInitOnce ==
    /\ lazyRuns <= 1
    /\ \A t \in Threads : lazyPc[t] = "returned" => (finished /\ lazyValue = "init")
    /\ \A t \in Threads :
          (lazySaw[t].done /\ lazySaw[t].started /\ ~lazySaw[t].finished)
              => lazyPc[t] = "panicked"

\* One force() ran the init function and returned, a concurrent one found
\* started set before finished and panicked, a later one returned the value.
C8_Witness ==
    \E t, u, w \in Threads :
        /\ lazyRuns = 1
        /\ lazySaw[t].done /\ ~lazySaw[t].started /\ lazyPc[t] = "returned"
        /\ lazySaw[u].started /\ ~lazySaw[u].finished /\ lazyPc[u] = "panicked"
        /\ ~lazySaw[w].done /\ lazyPc[w] = "returned"

\* C9 as stated: descriptor lifetime.  After Close(d) has succeeded, every
\* Read(d, ...) of that process returns a1 = -1 with a2 = NotFound, until an
\* Open reallocates slot d.
C9_ReadAfterCloseNotFound ==
    [][\A d \in DescNums, r \in BufRegions :
          (d \in closed /\ SysRead(d, r))
              => frame' = [a0 |-> "Read", a1 |-> -1, a2 |-> "NotFound"]]_vars

\* C9, amended: after Close(d) has succeeded and until an Open reallocates
\* slot d, a Read(d, buf, len) whose buffer the user-memory check accepts
\* returns a1 = -1 with a2 = NotFound; one whose buffer the check rejects
\* returns a1 = -1 with a2 = NotPermitted, the check coming before the
\* descriptor lookup; one on which the check itself panics halts the kernel.
C9_ReadAfterCloseByBuffer ==
    [][\A d \in DescNums, r \in BufRegions :
          (d \in closed /\ SysRead(d, r)) =>
              LET fr == for_region(procPt[CURRENT_PROC_SLOT], debug_assertions, r, TRUE) IN
              /\ fr = "Some" => frame' = [a0 |-> "Read", a1 |-> -1, a2 |-> "NotFound"]
              /\ fr = "None" => frame' = [a0 |-> "Read", a1 |-> -1, a2 |-> "NotPermitted"]
              /\ fr = "panic" => panicked' # "none"]_vars

\* Descriptor 0 was opened and closed, and a Read of it has just returned
\* NotFound.
C9_Witness ==
    /\ panicked = "none"
    /\ lastRead \in closed
    /\ Len(descs) >= 1
    /\ frame = [a0 |-> "Read", a1 |-> -1, a2 |-> "NotFound"]

\* The processes with a descriptor that refers to description i.
Referrers(i) == {s \in Slots : \E d \in DOMAIN procRd[s] : procRd[s][d] = i}

\* C10: the close operation runs exactly once per opened descriptor.  For any
\* sequence of Open, Close and Exit, the vtable close of each description
\* created by Open has run at most once, and exactly once as soon as no
\* descriptor refers to it any more (after the Close of its descriptor or the
\* Exit of its process); it has not run while a descriptor refers to it.
C10_CloseRunsOncePerDescription ==
    \A i \in 1 .. Len(descs) :
        /\ descs[i].closes <= 1
        /\ descs[i].closes = 1 <=> Referrers(i) = {}

\* Two descriptions were created, both in slot 0: the first was closed by
\* Close before the second Open, the second by the Exit of the process.
C10_Witness ==
    /\ procState[0] = "Exited"
    /\ Len(descs) = 2
    /\ \A i \in 1 .. Len(descs) : descs[i].closes = 1
    /\ frame = [a0 |-> "Open", a1 |-> 0, a2 |-> "unchanged"]


\* C11: file offset.  Each successful Read or Write on a file descriptor
\* that transfers k > 0 bytes advances the offset of the descriptor's
\* description by exactly k, so that the next Read starts where this one
\* ended.
C11_TransferAdvancesOffset ==
    [][\A d \in DescNums, r \in BufRegions :
          ((SysRead(d, r) \/ SysWrite(d, r))
              /\ panicked' = "none"
              /\ d \in DOMAIN procRd[CURRENT_PROC_SLOT]
              /\ frame'.a1 > 0)
          => LET id == procRd[CURRENT_PROC_SLOT][d] IN
             descs'[id].offset = descs[id].offset + frame'.a1]_vars

\* C12: Close return value.  A Close of an open descriptor number returns 0
\* in a1.
C12_CloseReturnsZero ==
    [][\A d \in DescNums :
          (SysClose(d) /\ d \in DOMAIN procRd[CURRENT_PROC_SLOT]) => frame'.a1 = 0]_vars


\* C13: Mmap guard gap.  Over the successful Mmap calls of the user process,
\* the first returned base is 0x0200_0000, each later base is the previous
\* base plus the previous page count plus one page, and the page right after
\* each returned region is unmapped.
C13_MmapGuardGap ==
    \A i \in 1 .. Len(mmaps) :
        /\ mmaps[i][1] = IF i = 1 THEN MMAP_BASE_PAGE
                         ELSE mmaps[i - 1][1] + mmaps[i - 1][2] + 1
        /\ (mmaps[i][1] + mmaps[i][2]) \notin DOMAIN procPt[0].leaf


\* The descriptor table of the running process has no empty slot.
TableFull ==
    /\ CURRENT_PROC_SLOT \in Slots
    /\ DOMAIN procRd[CURRENT_PROC_SLOT] = 0 .. (MAX_NUM_RESOURCE_DESCRIPTORS - 1)

RECURSIVE Resolves(_, _)
Resolves(inode_num, path_parts) ==
    \/ path_parts = <<>>
    \/ \E e \in Disk[inode_num].entries :
          e[1] = Head(path_parts) /\ Resolves(e[2], Tail(path_parts))

\* C15: bad path.  With a readable path buffer and a free descriptor slot,
\* an Open whose path is not UTF-8 or does not start with '/' returns
\* a1 = -1, a2 = InvalidFormat, an Open whose absolute path has a component
\* that does not exist returns a1 = -1, a2 = NotFound, and in both cases the
\* descriptor table of the process is left as it was.
C15_BadPathErrors ==
    [][\A pg \in PathPages, p \in Paths, f \in OpenFlagSets :
          (SysOpen(pg, p, f)
              /\ for_region(procPt[CURRENT_PROC_SLOT], debug_assertions, <<pg, 0, Len(p)>>,
                            FALSE) = "Some"
              /\ find_free_slot(procRd[CURRENT_PROC_SLOT]) # -1)
          => /\ (~from_utf8(p) \/ ~strip_prefix(p).ok)
                => /\ frame' = [a0 |-> "Open", a1 |-> -1, a2 |-> "InvalidFormat"]
                   /\ procRd' = procRd
             /\ (from_utf8(p) /\ strip_prefix(p).ok
                   /\ ~Resolves(ROOT_INODE, split(strip_prefix(p).rest)))
                => /\ frame' = [a0 |-> "Open", a1 |-> -1, a2 |-> "NotFound"]
                   /\ procRd' = procRd]_vars

\* C16: whenever a step switches to a process that was switched away from
\* before, the callee-saved registers (ra, s0..s11) and the stack pointer it
\* resumes with are those it had when it was last switched away from.
C16_ResumesWithSavedRegisters ==
    [][(/\ CURRENT_PROC_SLOT \in Slots
        /\ CURRENT_PROC_SLOT' \in Slots
        /\ CURRENT_PROC_SLOT' # CURRENT_PROC_SLOT
        /\ panicked' = "none"
        /\ switchedAway[CURRENT_PROC_SLOT'].valid)
       => /\ regs' = switchedAway[CURRENT_PROC_SLOT'].regs
          /\ sp' = switchedAway[CURRENT_PROC_SLOT'].sp]_vars

\* What walking table pt for page vpn yields: <<physical page, flags>> of a
\* Valid leaf, <<-1, {}>> for a page that is not mapped.
Translation(pt, vpn) ==
    LET e == entry_for_vaddr(pt, vpn) IN
    IF e.kind = "Some" /\ "Valid" \in e.flags THEN <<e.paddr, e.flags>> ELSE <<-1, {}>>

\* every page that has an entry in pt or is mapped by the call
WalkedPages == GuardPages \cup {USER_BASE_PAGE + 2, KernelBase, 0}

\* C17: a map_page(t, v, p, f) that returns Ok leaves v translated to p with
\* flags f | Valid and every other page translated as before; a call whose
\* leaf for v is already Valid panics and leaves every translation as it was.
C17_MapPageMapsOnePage ==
    [][\A v \in GuardPages, p \in GuardFrames, f \in GuardFlags :
         GuardMapPage(v, p, f) =>
           IF "Valid" \in LeafOf(guardPt, v).flags
           THEN /\ panicked' # "none"
                /\ \A w \in WalkedPages : Translation(guardPt', w) = Translation(guardPt, w)
           ELSE (map_page(guardPt, NEXT_PTR, FREED_PAGES, v, p, f).res = "Ok") =>
                /\ panicked' = "none"
                /\ Translation(guardPt', v) = <<p, f \cup {"Valid"}>>
                /\ \A w \in WalkedPages \ {v} :
                     Translation(guardPt', w) = Translation(guardPt, w)]_vars

\* Two pages mapped to frames other than themselves, the second by a
\* map_page that found the first in place.
C17_Witness ==
    /\ panicked = "none"
    /\ \E v, w \in DOMAIN guardPt.leaf :
         /\ v # w
         /\ Translation(guardPt, v)[1] = KernelBase
         /\ Translation(guardPt, w)[1] = FreeRamEnd

\* C18: freed-page reuse.  An alloc_pages(n) that starts while the freed-page
\* list holds a node of n pages does not panic: it unlinks a node of that
\* size, hands out its address and leaves the bump cursor where it was.
C18_FreedPagesReused ==
    [][\A t \in Threads, n \in AllocSizes :
         (AllocBegin(t, n) /\ \E i \in 1 .. Len(FREED_PAGES) : FREED_PAGES[i].num_pages = n)
         => /\ panicked' = "none"
            /\ NEXT_PTR' = NEXT_PTR
            /\ \E i \in 1 .. Len(FREED_PAGES) :
                 /\ FREED_PAGES[i].num_pages = n
                 /\ FREED_PAGES' = SubSeq(FREED_PAGES, 1, i - 1)
                                     \o SubSeq(FREED_PAGES, i + 1, Len(FREED_PAGES))
                 /\ \E a \in live' \ live : a.ptr = FREED_PAGES[i].addr /\ a.num_pages = n]_vars

\* C19: page allocator exhaustion.  The bump cursor never decreases and never
\* passes __free_ram_end; an alloc_pages(n) that found no freed node and whose
\* cursor + n * 4096 (not wrapped) lies beyond __free_ram_end returns
\* OutOfMemory without a panic and leaves the cursor where it was.
C19_ExhaustionKeepsCursor ==
    [][/\ NEXT_PTR' >= NEXT_PTR
       /\ NEXT_PTR' <= FreeRamEnd
       /\ \A t \in Threads :
            (AllocLoad(t) /\ NEXT_PTR + allocN[t] > FreeRamEnd)
            => /\ panicked' = "none"
               /\ allocPc'[t] = "idle"
               /\ NEXT_PTR' = NEXT_PTR]_vars

\* the size class of a layout, -1 for none
ClassOf(layout) == class_for_size(Max2(layout[1], layout[2]))[1]

\* C20: size allocator round trip.  Deallocating a block of a size class
\* pushes it on that class's free list and leaves fresh_head alone; an
\* allocation from a class that has blocks given back returns the one given
\* back last, and moves neither fresh_head nor the page allocator's cursor.
C20_FreedBlockReusedFirst ==
    [][/\ \A block \in heap :
            (KDealloc(block) /\ block.layout[1] # 0 /\ ClassOf(block.layout) # -1)
            => LET c == ClassOf(block.layout) IN
               /\ panicked' = "none"
               /\ classes'[c].free_list = <<block.addr>> \o classes[c].free_list
               /\ classes'[c].fresh_head = classes[c].fresh_head
       /\ \A layout \in HeapLayouts :
            (KAlloc(layout) /\ layout[1] # 0 /\ ClassOf(layout) # -1
               /\ freedOrder[ClassOf(layout)] # <<>>)
            => LET c == ClassOf(layout) IN
               /\ panicked' = "none"
               /\ heap' = heap \cup {[addr |-> Head(freedOrder[c]), layout |-> layout,
                                        reused |-> TRUE]}
               /\ classes'[c].fresh_head = classes[c].fresh_head
               /\ NEXT_PTR' = NEXT_PTR]_vars

\* Two blocks of one class were given back and the one given back last has
\* been handed out again, while the other still waits.
C20_Witness ==
    /\ panicked = "none"
    /\ \E b \in heap :
         /\ b.reused
         /\ b.addr[2] = MIN_SIZE_CLASS * 2 ^ ClassOf(b.layout)
         /\ Len(freedOrder[ClassOf(b.layout)]) = 1
         /\ classes[ClassOf(b.layout)].fresh_head[2] = 2 * b.addr[2]


\* C21: once the refcount of a KrcBox is usize::MAX, no step of a clone or a
\* drop changes it (a clone does not wrap it to 0, a drop does not decrement
\* it), and the payload is not destroyed and the allocation is not freed
\* from then on.
C21_SaturatedCountIsSticky ==
    [][refcount = USIZE_MAX =>
          /\ refcount' = USIZE_MAX
          /\ rcDestroyed' = rcDestroyed
          /\ rcFreed' = rcFreed
          /\ \A t \in Threads : rcPc'[t] \notin {"destroy", "free"}]_vars

\* The count is saturated, a drop that loaded the saturated count has
\* returned, every handle is gone and the payload is still there.
C21_Witness ==
    /\ refcount = USIZE_MAX
    /\ \E t \in Threads : rcOld[t] = USIZE_MAX
    /\ \A t \in Threads : rcPc[t] = "idle" /\ rcOwned[t] = 0
    /\ rcDestroyed = 0
    /\ rcFreed = 0


\* C22: on one OnceLock, under every interleaving of set calls, at most one
\* set returns Ok, and it is the set whose fetch_or was the first to set
\* Locked; every other set returns Err carrying its own argument and leaves
\* the stored value alone (once a set has lost, a winner exists: it has
\* returned Ok or is between its fetch_or and its return); on a lock built
\* with From(v) no set returns Ok and the value stays v.
C22_SetWritesOnce ==
    [][/\ onceHist'.oks <= 1
       /\ onceHist'.built = "from" => onceHist'.oks = 0 /\ onceValue' = onceValue
       /\ \A t \in Threads :
            oncePc[t] = "idle" /\ oncePc'[t] = "write" =>
                ~locked(onceFlags) /\ locked(onceFlags')
       /\ onceHist'.oks = onceHist.oks + 1 =>
            /\ oncePc[onceHist'.last] = "publish"
            /\ onceSet'[onceHist'.last] = SetOk
            /\ onceValue' = onceArg[onceHist'.last]
       /\ onceHist'.errs = onceHist.errs + 1 =>
            /\ onceSet'[onceHist'.last] = SetErr(onceArg'[onceHist'.last])
            /\ onceValue' = onceValue
            /\ \/ onceHist'.built = "from"
               \/ onceHist'.oks = 1
               \/ \E u \in Threads \ {onceHist'.last} : oncePc'[u] \in {"write", "publish"}]_vars

\* One set has returned Ok and, after it, a set with another argument has
\* returned Err, on a lock built with new.
C22_Witness ==
    /\ onceHist.built = "new"
    /\ onceHist.oks = 1
    /\ onceHist.errs >= 1
    /\ onceSet[onceHist.last].res = "Err"
    /\ onceSet[onceHist.last].value # onceValue
    /\ "Initialized" \in onceFlags


\* C23: under every interleaving of update(f) calls on one Atomic, an update
\* that completes returns the value it replaced and installs f of exactly
\* that value, nothing else changes the Atomic, and so the value is the
\* start value with every completed closure applied: N completed increments
\* (and no decrement) raise it by exactly N.
C23_UpdateLosesNoUpdate ==
    [][/\ atomValue' = (atomHist'.inc + (U8_RANGE - 1) * atomHist'.dec) % U8_RANGE
       /\ \A t \in Threads :
            atomPc[t] = "cas" /\ atomPc'[t] = "idle" =>
                /\ atomRet'[t] = [some |-> TRUE, value |-> atomValue]
                /\ atomValue' = apply(atomCall[t].f, atomValue)
       /\ atomValue' # atomValue =>
            \E t \in Threads : atomPc[t] = "cas" /\ atomPc'[t] = "idle"]_vars

\* Two increments have completed although one of them lost a
\* compare-exchange to the other and went round the loop again.
C23_Witness ==
    /\ atomHist.inc = 2
    /\ atomHist.dec = 0
    /\ atomHist.retries >= 1
    /\ atomValue = 2
    /\ \A t \in Threads : atomPc[t] = "idle"


\* C24: read_file_from_offset(n, 0, buf) on a regular file of length L within
\* the direct-block range, with a buffer of at least L bytes, returns Ok(L)
\* and leaves buf[0..L) equal to the file's contents, byte for byte.
C24_WholeFileRead ==
    (/\ ext2Call.op = "read"
     /\ ext2Call.offset = 0
     /\ Inodes[ext2Call.inode_num].type = 8
     /\ ext2Call.buf_len >= Inodes[ext2Call.inode_num].size_lower)
    => /\ ext2Out.res = "Ok"
       /\ ext2Out.len = Inodes[ext2Call.inode_num].size_lower
       /\ SubSeq(ext2Out.buf, 1, Inodes[ext2Call.inode_num].size_lower)
            = FileContents(ext2Call.inode_num)

\* C25: for every component list, lookup_path returns the inode reached from
\* inode 2 by taking, for each component in order, the entry of the current
\* directory with that name, and None as soon as a component has no such entry.
C25_LookupIsTraversal ==
    ext2Call.op = "lookup" =>
        IF Traverse(ROOT_INODE, ext2Call.path_parts) = 0
        THEN ext2Out.res = "None"
        ELSE ext2Out = [res |-> "Some",
                        inode_num |-> Traverse(ROOT_INODE, ext2Call.path_parts)]

\* C26: Virtio block round trip. A read_sector of sector s that returns Ok
\* leaves in the caller's buffer the data d of the last write_sector(d, s),
\* provided that write returned Ok and no other write to s came in between.
C26_BlockRoundTrip ==
    (/\ vioOut.op = "read"
     /\ vioOut.res = "Ok"
     /\ vioHist.written[vioOut.sector] # "none")
    => vioOut.buf = vioHist.written[vioOut.sector]

\* a read returned Ok on a sector that an earlier write had filled
C26_Witness ==
    /\ vioOut.op = "read"
    /\ vioOut.res = "Ok"
    /\ vioHist.written[vioOut.sector] \in DataTokens
    /\ vioOut.buf = vioHist.written[vioOut.sector]

\* C29: Virtio used element. Once a submitted request has completed,
\* run_descriptor returns the used-ring element the device wrote for that
\* request (the one at used.ring[(used.index - 1) mod 16]), so the length it
\* returns is the byte count the device reported.
C29_ReturnsDeviceElement ==
    vioOut.op # "none" =>
        /\ vioOut.used = vioQueue.used.ring[used_slot_written(vioQueue.used.index)]
        /\ vioOut.used = vioHist.wrote

\* C30: Virtio initialisation order. The DeviceStatus writes occur in the
\* order 0, Acknowledge, Acknowledge|Driver, Acknowledge|Driver|FeaturesOk,
\* Acknowledge|Driver|FeaturesOk|DriverOk, and queue 0 is fully initialised
\* (QueueSelect, QueueSize = 16, QueuePfn, QueueReady = 1) after FeaturesOk
\* and before DriverOk is written.
C30_InitOrder ==
    LET StatusWrites == SelectSeq(vioLog, LAMBDA w : w.reg = "DeviceStatus")
        QueueWrites == SelectSeq(vioLog, LAMBDA w : w.reg \in {"QueueSelect", "QueueSize",
                                                             "QueuePfn", "QueueReady"})
        Expected == SelectSeq(initialize, LAMBDA w : w.k = "w")
        Queue0 == SelectSeq(initialize_queue(0), LAMBDA w : w.k = "w")
        Pos(bit) == { i \in 1 .. Len(vioLog) :
                        vioLog[i].reg = "DeviceStatus" /\ bit \in vioLog[i].val }
        QueuePos == { i \in 1 .. Len(vioLog) : vioLog[i].reg = "QueueReady" }
    IN /\ Len(StatusWrites) <= Len(Expected)
       /\ StatusWrites = SubSeq(Expected, 1, Len(StatusWrites))
       /\ Len(QueueWrites) <= Len(Queue0)
       /\ QueueWrites = SubSeq(Queue0, 1, Len(QueueWrites))
       /\ \A i \in 1 .. Len(vioLog) :
             vioLog[i].reg \in {"QueueSelect", "QueueSize", "QueuePfn", "QueueReady"}
             => Pos("FeaturesOk") # {}
       /\ \A i \in Pos("DriverOk") : \E j \in QueuePos : j < i

\* C27: switch_context is only ever entered with a Runnable new process.
\* Whatever slot next_proc_to_run selected, every switch made by sched_yield
\* passes the assertion at the top of switch_context: the process switched
\* to is in state Runnable.
C27_SwitchOnlyToRunnable ==
    [][ /\ panicked' # "New process should be runnable"
        /\ (booted /\ CURRENT_PROC_SLOT' # CURRENT_PROC_SLOT)
              => procState'[CURRENT_PROC_SLOT'] = "Runnable" ]_vars

\* C28: scheduler selection safety.  sched_yield never makes a slot in state
\* Unused or Exited the current process, and it makes an Idle slot current
\* only when no slot, the current one included, is Runnable.
C28_SelectionSafety ==
    [][ (booted /\ CURRENT_PROC_SLOT' # CURRENT_PROC_SLOT) =>
            /\ procState'[CURRENT_PROC_SLOT'] \notin {"Unused", "Exited"}
            /\ procState'[CURRENT_PROC_SLOT'] = "Idle"
                  => \A s \in Slots : procState'[s] # "Runnable" ]_vars

\* sched_yield has switched to the Idle process after the last Runnable
\* process exited, and, in another behaviour, from one Runnable process to
\* the next
C28_Witness ==
    /\ booted
    /\ panicked = "none"
    /\ CURRENT_PROC_SLOT \in Slots
    /\ procState[CURRENT_PROC_SLOT] = "Idle"
    /\ \E s \in Slots : procState[s] = "Exited"

\* C31: Ext2 read at any offset and buffer length.  For every offset up to
\* the file size and every buffer length, read_file_from_offset terminates
\* and returns r = min(buf.len, file_size - off) with buf[0..r) equal to the
\* file's bytes [off, off + r), also when off is not a multiple of 512 and
\* when the buffer is shorter than the rest of the file.
C31_ReadAtAnyOffset ==
    (/\ ext2Call.op = "read"
     /\ Inodes[ext2Call.inode_num].type = 8
     /\ ext2Call.offset <= Inodes[ext2Call.inode_num].size_lower)
    => LET r == Min2(ext2Call.buf_len,
                     Inodes[ext2Call.inode_num].size_lower - ext2Call.offset)
       IN /\ ext2Out.res = "Ok"
          /\ ext2Out.len = r
          /\ SubSeq(ext2Out.buf, 1, r)
               = SubSeq(FileContents(ext2Call.inode_num), ext2Call.offset + 1,
                        ext2Call.offset + r)

\* C32: Ext2 inode location.  For every inode number n >= 1 and every
\* superblock the validity check accepts, inode(n) asks for the descriptor of
\* group (n - 1) / inodes_per_group, reads the sector inode_table_addr *
\* sectors_per_block + (local * inode_size) / 512 with local = (n - 1) mod
\* inodes_per_group, and takes the inode at byte (local * inode_size) mod 512
\* of that sector, without dividing by zero.
C32_InodeLocation ==
    (ext2Call.op = "inode" /\ check_validity(ext2Call.sb) = "Ok") =>
        LET sb == ext2Call.sb
            local == (ext2Call.inode_num - 1) % sb.inodes_per_group
        IN /\ ext2Out.res = "Ok"
           /\ ext2Out.group_num = (ext2Call.inode_num - 1) \div sb.inodes_per_group
           /\ ext2Out.sector = ext2Out.inode_table_addr * sectors_per_block(sb)
                               + ((local * sb.inode_size) \div SECTOR_LEN)
           /\ ext2Out.byte = (local * sb.inode_size) % SECTOR_LEN

\* C33: block-group descriptor lookup.  For every group number g below the
\* number of block groups, block_group_descriptor(g) returns the g-th 32-byte
\* record of the descriptor table: the record at byte offset g * 32 from the
\* start of the table.
C33_DescriptorIsRecord ==
    ext2Call.op = "bgd" =>
        /\ ext2Out.res = "Ok"
        /\ ext2Out.inode_table_addr
             = BgdtWord(ext2Call.group_num * BGD_DISK_SIZE + BGD_INODE_TABLE_OFFSET)
        /\ ext2Out.inode_table_addr = InodeTableAddr[ext2Call.group_num + 1]

\* C34: Mmap out of memory.  When the page allocator cannot supply the pages
\* an Mmap call asks for, the syscall returns a1 = -1 with a2 = OutOfMemory
\* to the calling process.
C34_MmapOutOfMemory ==
    [][\A alloc_size \in MmapSizes \cup {AllFreeRam} :
          (/\ SysMmap(alloc_size)
           /\ alloc_pages(NEXT_PTR, FREED_PAGES, MmapPages(alloc_size)).res = "OutOfMemory")
          => /\ panicked' = "none"
             /\ frame' = [a0 |-> "Mmap", a1 |-> -1, a2 |-> "OutOfMemory"]]_vars


\* C35: every allocation can be returned.  Deallocating a block the allocator
\* handed out, with the layout it was asked for (zero-sized, size-classed or
\* above MAX_SIZE_CLASS), completes without a kernel panic.
C35_EveryAllocationCanBeReturned ==
    [][\A block \in heap : KDealloc(block) => panicked' = "none"]_vars


\* C36: Exit is final.  A slot whose state is Exited keeps that state in every
\* later step; no step makes an Exited slot the current process; and the step
\* of the Exit syscall leaves the caller Exited and either switches to another
\* slot or panics, so that the kernel never runs on with an Exited process
\* as the current one (Exit does not return to its caller).
C36_ExitIsFinal ==
    [][/\ \A s \in Slots : procState[s] = "Exited" => procState'[s] = "Exited"
       /\ (CURRENT_PROC_SLOT' # CURRENT_PROC_SLOT /\ CURRENT_PROC_SLOT' \in Slots)
            => procState'[CURRENT_PROC_SLOT'] # "Exited"
       /\ SysExit => /\ procState'[CURRENT_PROC_SLOT] = "Exited"
                     /\ panicked' # "none" \/ CURRENT_PROC_SLOT' # CURRENT_PROC_SLOT
       /\ (panicked' = "none" /\ booted' /\ CURRENT_PROC_SLOT' \in Slots)
            => procState'[CURRENT_PROC_SLOT'] # "Exited"]_vars
\* two processes have exited and a third one is running
C36_Witness ==
    /\ panicked = "none"
    /\ booted
    /\ CURRENT_PROC_SLOT \in Slots
    /\ procState[CURRENT_PROC_SLOT] = "Runnable"
    /\ Cardinality({s \in Slots : procState[s] = "Exited"}) >= 2


\* C37: process slots are never reclaimed.  A slot that has left Unused never
\* becomes Unused again; a call of create_process changes no slot that is not
\* Unused, and a successful call fills exactly one Unused slot, so that the
\* slots in use count the successful calls; once MAX_PROCS calls have
\* succeeded, every further call panics with "Out of space for processes",
\* whether or not processes have exited in between.
C37_SlotsNeverReclaimed ==
    [][/\ \A s \in Slots : procState[s] # "Unused" => procState'[s] # "Unused"
       /\ PID_COUNTER' - 1 = Cardinality({s \in Slots : procState'[s] # "Unused"})
       /\ \A n \in {0, UserImagePages} :
            ProcessCreate(n)
            => /\ \A s \in Slots :
                    procState[s] # "Unused"
                    => /\ procState'[s] = procState[s]
                       /\ procPid'[s] = procPid[s]
                       /\ procPt'[s] = procPt[s]
                       /\ procRdPtr'[s] = procRdPtr[s]
               /\ PID_COUNTER - 1 >= MAX_PROCS
                    => /\ panicked' = "Out of space for processes"
                       /\ procState' = procState]_vars
\* the ninth create_process has panicked while an earlier process had exited
C37_Witness ==
    /\ panicked = "Out of space for processes"
    /\ PID_COUNTER = MAX_PROCS + 1
    /\ \E s \in Slots : procState[s] = "Exited"


\* C38: virtio request publication.  For every head index d in 0 .. 15, when
\* run_descriptor(q, d) notifies the device, the slot of the available ring
\* at the old available.index (mod QUEUE_SIZE) holds d and available.index is
\* the old index plus one (mod 2^16).
C38_PublishesHead ==
    [][\A d \in Heads :
          VioRunDescriptor(d)
          => /\ vioQueue'.available.ring[vioQueue.available.index % QUEUE_SIZE] = d
             /\ vioQueue'.available.index = (vioQueue.available.index + 1) % U16_RANGE
             /\ vioLog'[Len(vioLog')] = WriteReg("QueueNotify", 0)]_vars


\* C39: entropy read is bounded.  A call of read_random submits at most
\* MAX_NUM_ITERS requests to the device; when it returns Ok the device has
\* written every byte of the caller's buffer during the call; when it returns
\* Err(Io) it has submitted MAX_NUM_ITERS requests and the buffer is not full.
C39_EntropyReadBounded ==
    /\ vioHist.requests <= MAX_NUM_ITERS
    /\ (vioOut # NoVioCall /\ vioOut.res = "Ok") => vioOut.filled = 0 .. vioOut.len - 1
    /\ (vioOut # NoVioCall /\ vioOut.res = "Err(Io)")
         => /\ vioOut.requests = MAX_NUM_ITERS
            /\ vioOut.filled # 0 .. vioOut.len - 1


SizeClasses == 0 .. (NUM_SIZE_CLASSES - 1)
RECURSIVE Pow2(_)
Pow2(n) == IF n = 0 THEN 1 ELSE 2 * Pow2(n - 1)
SizeOfClass(c) == MIN_SIZE_CLASS * Pow2(c)
\* addresses of the blocks of class c: those in use and those on its free list
LiveOfClass(c) == { b \in heap : b.layout[1] # 0 /\ ClassOf(b.layout) = c }
FreeOfClass(c) == { classes[c].free_list[i] : i \in DOMAIN classes[c].free_list }
BlocksOfClass(c) == { b.addr : b \in LiveOfClass(c) } \cup FreeOfClass(c)
PagesOfClass(c) == { a[1] : a \in BlocksOfClass(c) }
PagesOf(blocks) == { a[1] : a \in blocks }
\* blocks cut so far from `pages` pages of a class whose newest page is `page`
CutOfClass(size, fresh_head, pages, page) ==
    (pages - 1) * (PAGE_SIZE \div size)
    + (IF fresh_head = <<page + 1, 0>> THEN PAGE_SIZE \div size ELSE fresh_head[2] \div size)
\* a class of block size `size` with the blocks `used` handed out and `free` on its list
ClassWellFormed(size, fsa, used, free) ==
    /\ \A a \in used \cup free :
          /\ a[2] % size = 0
          /\ a[2] + size <= PAGE_SIZE
          /\ a[1] >= FreeRam /\ a[1] < NEXT_PTR
    /\ used \cap free = {}
    /\ Cardinality(free) = Len(fsa.free_list)
    /\ \/ fsa.fresh_head = NullPtr /\ used \cup free = {}
       \/ /\ used \cup free # {}
          /\ LET pages == PagesOf(used \cup free)
                 page == CHOOSE p \in pages : \A q \in pages : q <= p
             IN /\ \/ fsa.fresh_head = <<page + 1, 0>>
                   \/ /\ fsa.fresh_head[1] = page
                      /\ fsa.fresh_head[2] > 0
                      /\ fsa.fresh_head[2] % size = 0
                /\ \A a \in used \cup free :
                      a[1] = page /\ fsa.fresh_head[1] = page => a[2] < fsa.fresh_head[2]
                /\ Cardinality(used) + Cardinality(free)
                     = CutOfClass(size, fsa.fresh_head, Cardinality(pages), page)

\* C40: size-class invariant.  After every sequence of allocations and frees,
\* each block a class has handed out is aligned to the class size, lies
\* inside one page the page allocator gave to that class alone, and overlaps
\* no other block of the class that is in use or on the free list; fresh_head
\* is null, or points into the class's newest page at a block boundary above
\* every block cut from that page, or exactly at that page's end; and every
\* block cut from the class's pages is either in use once or on the free
\* list once.
C40_SizeClassInvariant ==
    /\ \A b1, b2 \in heap :
          (b1 # b2 /\ b1.layout[1] # 0 /\ b2.layout[1] # 0) => b1.addr # b2.addr
    /\ \A c \in SizeClasses :
          ClassWellFormed(SizeOfClass(c), classes[c], { b.addr : b \in LiveOfClass(c) },
                          FreeOfClass(c))
    /\ \A c, d \in SizeClasses :
          (c < d /\ classes[c].fresh_head # NullPtr /\ classes[d].fresh_head # NullPtr)
          => PagesOfClass(c) \cap PagesOfClass(d) = {}
\* the largest class cut blocks from a second page and has a block on its free list
C40_Witness ==
    /\ panicked = "none"
    /\ Cardinality(PagesOfClass(NUM_SIZE_CLASSES - 1)) = 2
    /\ classes[NUM_SIZE_CLASSES - 1].free_list # <<>>
    /\ classes[NUM_SIZE_CLASSES - 1].fresh_head[2] = MAX_SIZE_CLASS

====
